---- MODULE Spec2Model ----
\* A model of near-orm (packages/core/orm.ts): the event bus, the default
\* materializer, the per-store CRUD methods, transaction() and seed(), running
\* on a model of the host store (IndexedDB object stores with in-line keys,
\* key generators, unique indexes and auto-committing transactions).
EXTENDS Integers, Sequences, FiniteSets, TLC

\* ---------------------------------------------------------------- bounds
\* most handlers registered at one time, over all event kinds
MaxHandlers == 3
\* most once() wrappers ever created
MaxOnce == 1
\* most unsubscribe closures the caller keeps
MaxClosures == 1
\* a re-triggering subscriber stops re-entering trigger() at this nesting depth
MaxDepth == 2

\* ---------------------------------------------------------------- event bus
\* The event kinds of eventHandlers.
Kinds == {"create", "update", "delete"}

\* The caller's callbacks and what each does when invoked: c1 only records the
\* call, c2 records it and throws, c3 records it and calls events.trigger again
\* with the same arguments (unless already nested MaxDepth deep).
Callbacks == {"c1", "c2", "c3"}
Behaviour == [c1 |-> "rec", c2 |-> "throw", c3 |-> "retrig"]

\* A function reference held in eventHandlers: the callback itself (w = 0) or
\* the wrappedCallback number w that once() built around it.
Handler(c, w) == [cb |-> c, w |-> w]

\* Array.prototype.filter(handler => handler !== callback)
Filter(arr, h) == SelectSeq(arr, LAMBDA x : x # h)

\* Array.prototype.splice(index, 1) with a 0-based index
Splice(arr, index) ==
  [j \in 1..(IF index < Len(arr) THEN Len(arr) - 1 ELSE Len(arr)) |->
     IF j <= index THEN arr[j] ELSE arr[j + 1]]

\* The arrays that exist while a dispatch runs: off() replaces the array of a
\* kind by a new one, a running for-of loop keeps iterating the array it began
\* with. heap[eh[k]] is the array eventHandlers[k] refers to.
KindIndex == [create |-> 1, update |-> 2, delete |-> 3]
StartMachine(handlers) ==
  [heap |-> <<handlers["create"], handlers["update"], handlers["delete"]>>,
   eh |-> KindIndex, stack |-> <<>>, log |-> <<>>, thrown |-> FALSE]

HandlersOf(m) == [k \in Kinds |-> m.heap[m.eh[k]]]

LoopFrame(m, kind, store, rec) ==
  [type |-> "loop", obj |-> m.eh[kind], i |-> 1, kind |-> kind,
   store |-> store, rec |-> rec, h |-> Handler("c1", 0)]

WrapFrame(f, h) == [f EXCEPT !.type = "wrap", !.h = h]

Depth(m) == Cardinality({j \in 1..Len(m.stack) : m.stack[j].type = "loop"})

Pop(stack) == SubSeq(stack, 1, Len(stack) - 1)

\* events.off(eventName, callback): the array is replaced by a filtered copy
OffMachine(m, kind, h) ==
  [m EXCEPT !.heap = Append(m.heap, Filter(m.heap[m.eh[kind]], h)),
            !.eh[kind] = Len(m.heap) + 1]

\* The body of the caller's callback c, invoked with (store, rec) by the loop
\* of frame f (directly, or through wrapper number w).
CallCallback(m, c, w, f) ==
  LET logged == [m EXCEPT !.log = Append(m.log,
                   [cb |-> c, w |-> w, d |-> Depth(m), kind |-> f.kind,
                    store |-> f.store, rec |-> f.rec])]
  IN CASE Behaviour[c] = "throw" -> [logged EXCEPT !.thrown = TRUE]
       [] Behaviour[c] = "retrig" /\ Depth(m) < MaxDepth ->
            [logged EXCEPT !.stack =
               Append(logged.stack, LoopFrame(logged, f.kind, f.store, f.rec))]
       [] OTHER -> logged

\* One step of the dispatch: the for-of loop of trigger() takes the next
\* handler of its array, or a wrappedCallback resumes after callback() returned
\* and calls off() on itself.
StepMachine(m) ==
  LET n == Len(m.stack)
      f == m.stack[n]
      arr == m.heap[f.obj]
  IN IF f.type = "wrap"
       THEN OffMachine([m EXCEPT !.stack = Pop(m.stack)], f.kind, f.h)
     ELSE IF f.i > Len(arr)
       THEN [m EXCEPT !.stack = Pop(m.stack)]
     ELSE LET h == arr[f.i]
              adv == [m EXCEPT !.stack[n].i = f.i + 1]
          IN IF h.w = 0
               THEN CallCallback(adv, h.cb, 0, f)
               ELSE CallCallback(
                      [adv EXCEPT !.stack = Append(adv.stack, WrapFrame(f, h))],
                      h.cb, h.w, f)

RECURSIVE RunMachine(_)
RunMachine(m) ==
  IF m.thrown \/ m.stack = <<>> THEN m ELSE RunMachine(StepMachine(m))

\* a variant of trigger that notifies the create subscribers of every event
triggerCreateSubscribers(handlers, kind, store, rec) ==
  LET m0 == StartMachine(handlers)
  IN RunMachine([m0 EXCEPT !.stack = <<LoopFrame(m0, "create", store, rec)>>])

\* events.trigger(eventName, storeName, record), run to its return or throw
trigger(handlers, kind, store, rec) ==
  LET m0 == StartMachine(handlers)
  IN RunMachine([m0 EXCEPT !.stack = <<LoopFrame(m0, kind, store, rec)>>])

\* ---------------------------------------------------------------- schema
\* The declared schema the engine is initialised with. Field values are
\* numbers: ids, e-mail addresses, names, dates and generated values are drawn
\* from small ranges, and a field that a record does not hold is not in the
\* record's domain.
Stores == {"users", "posts"}

\* Object.keys(schema[storeName].fields), in declaration order
FieldNames ==
  [users |-> <<"id", "email", "name">>,
   posts |-> <<"id", "published", "createdAt", "slug">>]

FieldDef(pk, uq, df) == [primaryKey |-> pk, unique |-> uq, default |-> df]

schema ==
  [users |-> [id |-> FieldDef(TRUE, FALSE, "none"),
              email |-> FieldDef(FALSE, TRUE, "none"),
              name |-> FieldDef(FALSE, FALSE, "none")],
   posts |-> [id |-> FieldDef(TRUE, FALSE, "autoincrement"),
              published |-> FieldDef(FALSE, FALSE, "static"),
              createdAt |-> FieldDef(FALSE, FALSE, "now"),
              slug |-> FieldDef(FALSE, FALSE, "function")]]

\* default: { type: "static", value: StaticValue }
StaticValue == 40

\* default: { type: "function", fn: () => FnBase + (the time of the call) }
FnBase == 50

\* new Date() when the clock shows t
DateBase == 60
Date(t) == DateBase + t

FieldSet(s) == {FieldNames[s][j] : j \in 1..Len(FieldNames[s])}

\* Object.keys(fields).find(fieldName => fields[fieldName].primaryKey)
primaryKeyField(s) ==
  LET idx == {j \in 1..Len(FieldNames[s]) : schema[s][FieldNames[s][j]].primaryKey}
  IN IF idx = {} THEN "undefined"
     ELSE FieldNames[s][CHOOSE j \in idx : \A k \in idx : j <= k]

EmptyRecord == [f \in {} |-> 0]

\* { ...a, ...b }
Merge(a, b) ==
  [f \in DOMAIN a \cup DOMAIN b |-> IF f \in DOMAIN b THEN b[f] ELSE a[f]]

\* { ...a, [f]: v }
With(a, f, v) == [g \in DOMAIN a \cup {f} |-> IF g = f THEN v ELSE a[g]]

\* ---------------------------------------------------------------- defaults
\* a materializer that evaluates every default when the schema is declared
DefaultValueAtDeclaration(df, now) ==
  CASE df = "now" -> Date(0)
    [] df = "static" -> StaticValue
    [] OTHER -> FnBase

\* the value the default of kind df yields when the clock shows now
DefaultValue(df, now) ==
  CASE df = "now" -> Date(now)
    [] df = "static" -> StaticValue
    [] OTHER -> FnBase + now

\* applyDefaults(storeName, data) when the clock shows now: the fields of the
\* schema are visited in order, a field that data holds is skipped, a field
\* with a now, static or function default is set
RECURSIVE applyDefaultsFrom(_, _, _, _, _)
applyDefaultsFrom(s, j, result, data, now) ==
  IF j > Len(FieldNames[s]) THEN result
  ELSE LET f == FieldNames[s][j]
           df == schema[s][f].default
       IN IF f \notin DOMAIN data /\ df \in {"now", "static", "function"}
            THEN applyDefaultsFrom(s, j + 1,
                   With(result, f, DefaultValue(df, now)), data, now)
            ELSE applyDefaultsFrom(s, j + 1, result, data, now)

applyDefaults(s, data, now) == applyDefaultsFrom(s, 1, data, data, now)

\* ---------------------------------------------------------------- host store
\* An object store of the host: its records by key and the current number of
\* its key generator. Every store has the in-line key path and the unique
\* indexes that applySchema gave it when it created the store.
keyPath(s) == primaryKeyField(s)
autoIncrement(s) == schema[s][primaryKeyField(s)].default = "autoincrement"
\* an applySchema that creates the store and none of its indexes
noUniqueIndexes(s) == {}
uniqueIndexes(s) == {f \in FieldSet(s) : schema[s][f].unique}

EmptyStore == [recs |-> EmptyRecord, gen |-> 1]

\* a unique index of the store refuses the record under key
IndexClash(s, st, key, rec) ==
  \E k \in DOMAIN st.recs : \E f \in uniqueIndexes(s) :
      /\ k # key
      /\ f \in DOMAIN rec
      /\ f \in DOMAIN st.recs[k]
      /\ st.recs[k][f] = rec[f]

\* IDBObjectStore.add(rec) and put(rec): DataError is thrown by the call, a
\* ConstraintError is reported to the request's onerror.
HostWrite(s, st, rec, overwrite) ==
  LET kp == keyPath(s)
      generated == kp \notin DOMAIN rec
      key == IF generated THEN st.gen ELSE rec[kp]
      stored == With(rec, kp, key)
      gen == IF autoIncrement(s) /\ key >= st.gen THEN key + 1 ELSE st.gen
  IN IF generated /\ ~autoIncrement(s)
       THEN [err |-> "DataError", st |-> st, key |-> 0]
     ELSE IF (~overwrite /\ key \in DOMAIN st.recs) \/ IndexClash(s, st, key, stored)
       THEN [err |-> "ConstraintError", st |-> st, key |-> key]
     ELSE [err |-> "none", key |-> key,
           st |-> [recs |-> [k \in DOMAIN st.recs \cup {key} |->
                               IF k = key THEN stored ELSE st.recs[k]],
                   gen |-> gen]]

HostAdd(s, st, rec) == HostWrite(s, st, rec, FALSE)
HostPut(s, st, rec) == HostWrite(s, st, rec, TRUE)

\* a variant of delete that removes every record of the store
HostClear(st, key) == [st EXCEPT !.recs = EmptyRecord]

\* IDBObjectStore.delete(key)
HostDelete(st, key) ==
  [st EXCEPT !.recs = [k \in DOMAIN st.recs \ {key} |-> st.recs[k]]]

\* IDBObjectStore.get(key): the record, or undefined
Undefined == [undefined |-> 0]
HostGet(st, key) == IF key \in DOMAIN st.recs THEN st.recs[key] ELSE Undefined


\* ---------------------------------------------------------------- versions
\* bounds of the version engine
\* largest version the caller asks for (versioning.version, migrate)
MaxVersion == 2
\* most connections open at one time
MaxConnections == 3

\* the versioning option of init
Auto == [type |-> "auto", version |-> 0]
Manual(version) == [type |-> "manual", version |-> version]

\* The database of the host under dbName: its version (0: there is none)
\* and the layout of its object stores.
NoDatabase == [version |-> 0, stores |-> [s \in {} |-> 0]]

\* createObjectStore(storeName, {keyPath, autoIncrement}) and the createIndex
\* calls of applySchema
StoreLayout(s) ==
  [keyPath |-> keyPath(s), autoIncrement |-> autoIncrement(s),
   indexes |-> uniqueIndexes(s)]

\* a variant of applySchema that makes every store of the schema anew and
\* keeps no other store
applySchemaAnew(stores) == [s \in Stores |-> StoreLayout(s)]

\* applySchema(db): every store of the schema that the database lacks is
\* created (each store of the schema has a primary key)
applySchema(stores) ==
  [s \in DOMAIN stores \cup Stores |->
     IF s \in DOMAIN stores THEN stores[s] ELSE StoreLayout(s)]

\* a variant of the host in which an open without a version asks for the
\* next version
versionOfOpenNext(d) == d.version + 1

\* indexedDB.open(name) without a version opens the database at the version
\* it has, and a database that does not exist at version 1
versionOfOpen(d) == IF d.version = 0 THEN 1 ELSE d.version

\* no engine instance
NoOrm ==
  [state |-> "none", versioning |-> Auto, migrations |-> FALSE,
   currentVersion |-> 0, schemaLength |-> 0, db |-> 0]

\* new ORM(options): the field initialisers and the constructor
NewOrm(versioning, migrations) ==
  [NoOrm EXCEPT !.state = "opening", !.versioning = versioning,
                !.migrations = migrations]

\* a variant of isAutoVersioning that is never true
isAutoVersioningNever(o) == FALSE

isAutoVersioning(o) == o.versioning.type = "auto"

\* calculateSchemaVersion(): the instance afterwards and the value returned
calculateSchemaVersion(o) ==
  LET currentSchemaLength == Len(FieldNames["users"]) + Len(FieldNames["posts"])
      previousSchemaLength == o.schemaLength
      currentVersion == o.currentVersion
      o2 == [o EXCEPT !.schemaLength = currentSchemaLength]
  IN IF previousSchemaLength # currentSchemaLength
       THEN [o |-> [o2 EXCEPT !.currentVersion = currentVersion + 1],
             version |-> currentVersion + 1]
       ELSE [o |-> o2, version |-> currentVersion]

\* getTargetVersion()
getTargetVersion(o) ==
  IF o.versioning.type = "auto" THEN calculateSchemaVersion(o)
  ELSE [o |-> o, version |-> o.versioning.version]

\* the error the host reports for an open when its backing store fails
HostError == "UnknownError"

\* What the host does with indexedDB.open(name, version) while the
\* connections conns are open: a version of 0 is a TypeError thrown by the
\* call, a version below the database's a VersionError; a higher version
\* needs an upgrade, which waits until every other connection is closed;
\* during the upgrade migrateDatabase's onupgradeneeded runs applySchema and
\* then the migrations hook. fail: the host's backing store fails and the
\* request gets an error event.
openAt(d, conns, version, o, fail) ==
  IF version = 0 THEN [res |-> "TypeError", d |-> d, hook |-> <<>>]
  ELSE IF fail THEN [res |-> HostError, d |-> d, hook |-> <<>>]
  ELSE IF version < d.version THEN [res |-> "VersionError", d |-> d, hook |-> <<>>]
  ELSE IF version = d.version THEN [res |-> "success", d |-> d, hook |-> <<>>]
  ELSE IF conns # {} THEN [res |-> "blocked", d |-> d, hook |-> <<>>]
  ELSE [res |-> "success",
        d |-> [version |-> version, stores |-> applySchema(d.stores)],
        hook |-> IF o.migrations THEN <<[old |-> d.version, new |-> version]>>
                 ELSE <<>>]

\* the handle of the next connection
NewConnection(conns) == Cardinality(conns) + 1

\* migrateDatabase(targetVersion) of instance o: the host's answer, the
\* instance, database and connections afterwards, and how the promise
\* settles
migrateDatabase(o, d, conns, targetVersion, fail) ==
  LET r == openAt(d, conns, targetVersion, o, fail)
      c == NewConnection(conns)
  IN IF r.res = "success"
       THEN [o |-> [o EXCEPT !.db = c, !.currentVersion = r.d.version],
             d |-> r.d, conns |-> conns \cup {c}, hook |-> r.hook,
             outcome |-> "resolved", err |-> "none"]
     ELSE IF r.res = "blocked"
       THEN [o |-> o, d |-> d, conns |-> conns, hook |-> <<>>,
             outcome |-> "pending", err |-> "blocked"]
     ELSE [o |-> o, d |-> d, conns |-> conns, hook |-> <<>>,
           outcome |-> "rejected", err |-> r.res]

\* where the host's backing store fails during an init: nowhere, at the first
\* open, or at the versioned open of checkAndApplyMigrations
HostFailures == {"none", "first", "reopen"}

\* initializeDatabase() of a new instance o: indexedDB.open(name), its
\* onerror, its onupgradeneeded when the database is new (applySchema) and
\* its onsuccess, which runs checkAndApplyMigrations and resolves when that
\* has resolved (it has no handler for its rejection)
initializeDatabase(o, d, conns, fail) ==
  LET newVersion == versionOfOpen(d)
      d1 == IF newVersion > d.version
              THEN [version |-> newVersion, stores |-> applySchema(d.stores)]
              ELSE d
      c == NewConnection(conns)
      conns1 == conns \cup {c}
      o1 == [o EXCEPT !.db = c, !.currentVersion = d1.version]
      target == getTargetVersion(o1)
      m == migrateDatabase(target.o, d1, conns1, target.version,
                           fail = "reopen")
  IN IF fail = "first"
       THEN [o |-> o, d |-> d, conns |-> conns, hook |-> <<>>,
             outcome |-> "rejected", err |-> HostError]
     ELSE IF target.version > target.o.currentVersion
       THEN [m EXCEPT !.outcome = IF m.outcome = "resolved" THEN "resolved"
                                  ELSE "pending"]
       ELSE [o |-> target.o, d |-> d1, conns |-> conns1, hook |-> <<>>,
             outcome |-> "resolved", err |-> "none"]

\* meta(): the version it reports is the version of the connection this.db,
\* which is the version of the database d while that connection is open
meta(d) == [version |-> d.version]

\* the engine and the database after ORM.init({schema}) on a host without a
\* database
FirstInit == initializeDatabase(NewOrm(Auto, FALSE), NoDatabase, {}, "none")

\* applySchema(db) for one store that the database does not hold, declared
\* with the fields `fields` (names: Object.keys(storeSchema.fields)): the
\* first field with primaryKey becomes the key path; without one applySchema
\* throws, the upgrade is aborted and the store is not created
firstPrimaryKey(names, fields) ==
  LET idx == {j \in 1..Len(names) : fields[names[j]].primaryKey}
  IN IF idx = {} THEN "undefined"
     ELSE names[CHOOSE j \in idx : \A k \in idx : j <= k]

NoLayout == [keyPath |-> "undefined", autoIncrement |-> FALSE, indexes |-> {}]

createObjectStore(names, fields) ==
  LET pkField == firstPrimaryKey(names, fields)
  IN IF pkField = "undefined"
       THEN [done |-> TRUE, err |-> "No primary key defined for object store",
             exists |-> FALSE, layout |-> NoLayout]
       ELSE [done |-> TRUE, err |-> "none", exists |-> TRUE,
             layout |->
               [keyPath |-> pkField,
                autoIncrement |->
                  fields[pkField].default = "autoincrement",
                indexes |-> {f \in DOMAIN fields : fields[f].unique}]]

\* applySchema has not run
NotCreated ==
  [done |-> FALSE, err |-> "none", exists |-> FALSE, layout |-> NoLayout]

\* no call of init or migrate settled in this step
NoVersionCall == [call |-> "none", outcome |-> "none", err |-> "none"]

\* ---------------------------------------------------------------- state
VARIABLES
  eventHandlers,  \* ORM.eventHandlers: per kind, the array of handlers
  nextWrapper,    \* the number the next wrappedCallback of once() gets
  closures,       \* the unsubscribe closures of on() the caller has kept
  onceCalls,      \* per wrappedCallback, how often it invoked its callback
  removed,        \* the <<kind, callback>> taken off and not subscribed since
  lastEv,         \* what the event API call of this step did
  db,             \* the committed object stores of the open connection
  txs,            \* the host transactions in creation order, and their owners
  nCalls,         \* the API calls made so far; the clock shows nCalls
  lastOp,         \* the create, update or delete that settled in this step
  lastTx,         \* the transaction() or seed() that settled in this step
  idb,            \* the host's database: its version and its stores
  connections,    \* the connections to it that are open
  orm,            \* the engine instance of the last ORM.init
  hookCalls,      \* the calls of the migrations hook
  lastV,          \* the init or migrate that settled or blocked in this step
  records,        \* the records of the queried store, in cursor (key) order
  builder,        \* the fields of the QueryBuilder that query(store) returned
  results,        \* what run() resolved with
  declared,       \* the fields of a store that an upgrade is to create
  created         \* what applySchema did for that store

evVars == <<eventHandlers, nextWrapper, closures, onceCalls, removed, lastEv>>
dbVars == <<db, txs, nCalls, lastOp, lastTx>>
queryVars == <<records, builder, results>>
versionVars == <<idb, connections, orm, hookCalls, lastV>>
schemaVars == <<declared, created>>
vars == <<evVars, dbVars, queryVars, versionVars, schemaVars>>

NoEv ==
  [type |-> "none", kind |-> "create", cb |-> "c1", log |-> <<>>,
   thrown |-> FALSE, live |-> FALSE]

TotalHandlers ==
  Len(eventHandlers["create"]) + Len(eventHandlers["update"])
    + Len(eventHandlers["delete"])

\* no create, update or delete settled in this step
NoOp ==
  [op |-> "none", via |-> "model", store |-> "users", input |-> EmptyRecord,
   id |-> 0, outcome |-> "none", err |-> "none", result |-> EmptyRecord,
   before |-> EmptyRecord, after |-> EmptyRecord, subs |-> <<>>, log |-> <<>>,
   now |-> 0]

\* no transaction() or seed() settled in this step
NoTx ==
  [kind |-> "none", outcome |-> "none", cb |-> "none", written |-> {},
   failed |-> FALSE, done |-> <<>>]

\* an optional number field of the QueryBuilder (limitCount, offsetCount):
\* undefined, or the count it was set to
NotSet == [set |-> FALSE, count |-> 0]
SetTo(n) == [set |-> TRUE, count |-> n]

\* new QueryBuilder(db, storeName): the field initialisers
NewBuilder ==
  [filters |-> <<>>, sortField |-> "undefined", sortOrder |-> "asc",
   limitCount |-> NotSet, offsetCount |-> NotSet]

\* run() has not resolved
NoResults == [done |-> FALSE, rows |-> <<>>]

\* The state after ORM.init on a fresh database: no handlers, every store of
\* the schema created and empty, no transaction, no query.
Init ==
  /\ idb = FirstInit.d
  /\ connections = FirstInit.conns
  /\ orm = [FirstInit.o EXCEPT !.state = "open"]
  /\ hookCalls = <<>>
  /\ lastV = NoVersionCall
  /\ records = <<>>
  /\ builder = NewBuilder
  /\ results = NoResults
  /\ declared = schema["users"]
  /\ created = NotCreated
  /\ eventHandlers = [k \in Kinds |-> <<>>]
  /\ nextWrapper = 1
  /\ closures = {}
  /\ onceCalls = [w \in {} |-> 0]
  /\ removed = {}
  /\ lastEv = NoEv
  /\ db = [s \in Stores |-> EmptyStore]
  /\ txs = <<>>
  /\ nCalls = 0
  /\ lastOp = NoOp
  /\ lastTx = NoTx

\* events.on(eventName, callback): the new array of the kind; the closure it
\* returns captures eventName and index. With a closure the caller remembers
\* the callback it subscribed (cb) and whether the registration is still due
\* to be there (live: neither the closure nor off(eventName, cb) was called
\* since the subscription).
on(handlers, kind, h) == [handlers EXCEPT ![kind] = Append(@, h)]
onClosure(handlers, kind, c) ==
  [kind |-> kind, index |-> Len(handlers[kind]), cb |-> c, live |-> TRUE]

\* a variant of off that removes one registration only (indexOf and splice)
RECURSIVE FilterFirst(_, _)
FilterFirst(arr, h) ==
  IF arr = <<>> THEN <<>>
  ELSE IF Head(arr) = h THEN Tail(arr)
  ELSE <<Head(arr)>> \o FilterFirst(Tail(arr), h)
offFirstOnly(handlers, kind, h) == [handlers EXCEPT ![kind] = FilterFirst(@, h)]

\* events.off(eventName, callback)
off(handlers, kind, h) == [handlers EXCEPT ![kind] = Filter(@, h)]

\* the closure returned by on(): eventHandlers[eventName].splice(index, 1)
unsubscribe(handlers, cl) == [handlers EXCEPT ![cl.kind] = Splice(@, cl.index)]

\* how often the log shows wrappedCallback w invoking its callback
WrapperCalls(log, w) == Cardinality({j \in 1..Len(log) : log[j].w = w})

CountOnce(calls, log) ==
  [w \in DOMAIN calls |->
     IF calls[w] + WrapperCalls(log, w) > 2 THEN 2
     ELSE calls[w] + WrapperCalls(log, w)]

\* the callbacks for which the caller keeps the closure that on() returns
Kept == {"c1"}

On(kind, c, keep) ==
  /\ TotalHandlers < MaxHandlers
  /\ keep => c \in Kept
  /\ keep => Cardinality(closures \cup {onClosure(eventHandlers, kind, c)}) <= MaxClosures
  /\ eventHandlers' = on(eventHandlers, kind, Handler(c, 0))
  /\ closures' = IF keep THEN closures \cup {onClosure(eventHandlers, kind, c)}
                 ELSE closures
  /\ removed' = removed \ {<<kind, c>>}
  /\ lastEv' = [NoEv EXCEPT !.type = "on"]
  /\ UNCHANGED <<versionVars, queryVars, schemaVars, nextWrapper, onceCalls, dbVars>>

Off(kind, c) ==
  /\ eventHandlers' = off(eventHandlers, kind, Handler(c, 0))
  /\ removed' = removed \cup {<<kind, c>>}
  /\ closures' = {IF cl.kind = kind /\ cl.cb = c
                     THEN [cl EXCEPT !.live = FALSE] ELSE cl : cl \in closures}
  /\ lastEv' = [NoEv EXCEPT !.type = "off", !.kind = kind, !.cb = c]
  /\ UNCHANGED <<versionVars, queryVars, schemaVars, nextWrapper, onceCalls, dbVars>>

Once(kind, c) ==
  /\ TotalHandlers < MaxHandlers
  /\ nextWrapper <= MaxOnce
  /\ eventHandlers' = on(eventHandlers, kind, Handler(c, nextWrapper))
  /\ nextWrapper' = nextWrapper + 1
  /\ onceCalls' = [w \in DOMAIN onceCalls \cup {nextWrapper} |->
                     IF w = nextWrapper THEN 0 ELSE onceCalls[w]]
  /\ lastEv' = [NoEv EXCEPT !.type = "once"]
  /\ UNCHANGED <<versionVars, queryVars, schemaVars, closures, removed, dbVars>>

Unsubscribe(cl) ==
  /\ eventHandlers' = unsubscribe(eventHandlers, cl)
  /\ closures' = (closures \ {cl}) \cup {[cl EXCEPT !.live = FALSE]}
  /\ lastEv' = [NoEv EXCEPT !.type = "unsubscribe", !.kind = cl.kind,
                            !.cb = cl.cb, !.live = cl.live]
  /\ UNCHANGED <<versionVars, queryVars, schemaVars, nextWrapper, onceCalls, removed, dbVars>>

\* the record the caller passes to events.trigger
TriggerRecord == [id |-> 1]

Trigger(kind, store) ==
  \E m \in {trigger(eventHandlers, kind, store, TriggerRecord)} :
     /\ eventHandlers' = HandlersOf(m)
     /\ onceCalls' = CountOnce(onceCalls, m.log)
     /\ lastEv' = [NoEv EXCEPT !.type = "trigger", !.kind = kind,
                               !.log = m.log, !.thrown = m.thrown]
     /\ UNCHANGED <<versionVars, queryVars, schemaVars, nextWrapper, closures, removed, dbVars>>

\* the kinds the caller of the event API subscribes to, and those it triggers
SubKinds == {"create"}
TriggerKinds == {"create", "update"}

NextEvents ==
  \/ \E k \in SubKinds, c \in Callbacks, keep \in BOOLEAN : On(k, c, keep)
  \/ \E k \in SubKinds, c \in Callbacks : Off(k, c)
  \/ \E k \in SubKinds, c \in Callbacks : Once(k, c)
  \/ \E cl \in closures : Unsubscribe(cl)
  \/ \E k \in TriggerKinds : Trigger(k, "users")

SpecEvents == Init /\ [][NextEvents]_vars


\* ---------------------------------------------------------------- requests
\* bounds of the data engine
\* most API calls (create, update, delete, transaction, seed) in a run
MaxCalls == 2
\* most host transactions alive at one time
MaxLive == 1
\* most requests the callback of one transaction() issues
MaxSteps == 2
\* most records in one seed() call
MaxSeed == 2

\* A request waiting in a host transaction, with what its handlers need: the
\* operation that issued it, the caller's input and the time of the call.
Req(rk, op, s, rec, id, input, now) ==
  [rk |-> rk, op |-> op, store |-> s, rec |-> rec, id |-> id,
   input |-> input, now |-> now]

NoWork == [s \in Stores |-> EmptyStore]

\* A host transaction and the promise of the call that opened it. A
\* transaction that has run a request holds its uncommitted view of the
\* stores in work.
Tx(kind, scope, q) ==
  [kind |-> kind, scope |-> scope, q |-> q, started |-> FALSE,
   work |-> NoWork, open |-> TRUE, outcome |-> "pending", cb |-> "none",
   steps |-> 0, written |-> {}, done |-> <<>>]

View(t) == IF t.started THEN t.work ELSE db

\* a host that runs the transactions of overlapping scopes in any order
RunnableInAnyOrder(i) == txs[i].open /\ txs[i].q # <<>>

\* Read-write transactions with overlapping scopes run in creation order.
Runnable(i) ==
  /\ txs[i].open
  /\ txs[i].q # <<>>
  /\ \A j \in 1..(i - 1) :
       ~(txs[j].open /\ txs[j].scope \cap txs[i].scope # {})

RemoveAt(seq, i) ==
  [j \in 1..(Len(seq) - 1) |-> IF j < i THEN seq[j] ELSE seq[j + 1]]

\* the committed stores after a transaction of this scope commits view w
Commit(scope, w) == [s \in Stores |-> IF s \in scope THEN w[s] ELSE db[s]]

\* a variant of Abort in which the writes made before the failure stay
AbortKeepsWrites(scope, w) ==
  [s \in Stores |-> IF s \in scope THEN w[s] ELSE db[s]]

\* the committed stores after a transaction with view w aborts: the host
\* discards the view
Abort(scope, w) == db

\* findById(id) on stores d: the record, or undefined
findById(d, s, id) == HostGet(d[s], id)

\* findAll() on stores d
findAll(d, s) == {d[s].recs[k] : k \in DOMAIN d[s].recs}

EventOf(op) == IF op = "seed" THEN "create" ELSE op

\* What running one request and its onsuccess or onerror handler does: the
\* new view, how the operation's promise settles ("none": it goes on with
\* the requests of next), whether the host aborts the transaction, and the
\* dispatch of the event.
Effect(w, key, err, settle, abort, next, result, handlers, log) ==
  [w |-> w, key |-> key, err |-> err, settle |-> settle, abort |-> abort,
   next |-> next, result |-> result, handlers |-> handlers, log |-> log]

\* a handler in which a subscriber threw: the host aborts the transaction and
\* neither resolve nor reject is reached
Thrown(w, key, m) ==
  Effect(w, key, "none", "hung", TRUE, <<>>, EmptyRecord, HandlersOf(m), m.log)

\* create: store.add(fullData), request.onerror and request.onsuccess
createRequest(r, w, handlers) ==
  LET res == HostAdd(r.store, w[r.store], r.rec)
      w2 == [w EXCEPT ![r.store] = res.st]
      resultData == With(r.rec, primaryKeyField(r.store), res.key)
      m == trigger(handlers, "create", r.store, resultData)
  IN IF res.err # "none"
       THEN Effect(w, res.key, res.err, "rejected", TRUE, <<>>, EmptyRecord,
                   handlers, <<>>)
     ELSE IF m.thrown THEN Thrown(w2, res.key, m)
     ELSE Effect(w2, res.key, "none", "resolved", FALSE, <<>>, resultData,
                 HandlersOf(m), m.log)

\* an update that writes the partial when the store holds no record under id
updateGetUpsert(r, w, handlers) ==
  LET result == HostGet(w[r.store], r.id)
      updatedData == IF result = Undefined THEN r.input
                     ELSE Merge(result, r.input)
  IN Effect(w, r.id, "none", "none", FALSE,
            <<Req("put", "update", r.store, updatedData, r.id, r.input,
                  r.now)>>,
            EmptyRecord, handlers, <<>>)

\* update: store.get(id) and getRequest.onsuccess, which issues store.put
updateGetRequest(r, w, handlers) ==
  LET result == HostGet(w[r.store], r.id)
      updatedData == Merge(result, r.input)
  IN IF result = Undefined
       THEN Effect(w, r.id, "NotFound", "rejected", FALSE, <<>>, EmptyRecord,
                   handlers, <<>>)
       ELSE Effect(w, r.id, "none", "none", FALSE,
                   <<Req("put", "update", r.store, updatedData, r.id, r.input,
                         r.now)>>,
                   EmptyRecord, handlers, <<>>)

\* update: store.put(updatedData), putRequest.onerror and putRequest.onsuccess
updatePutRequest(r, w, handlers) ==
  LET res == HostPut(r.store, w[r.store], r.rec)
      w2 == [w EXCEPT ![r.store] = res.st]
      m == trigger(handlers, "update", r.store, r.rec)
  IN IF res.err # "none"
       THEN Effect(w, r.id, res.err, "rejected", TRUE, <<>>, EmptyRecord,
                   handlers, <<>>)
     ELSE IF m.thrown THEN Thrown(w2, r.id, m)
     ELSE Effect(w2, r.id, "none", "resolved", FALSE, <<>>, r.rec,
                 HandlersOf(m), m.log)

\* delete: store.delete(id) and request.onsuccess
deleteRequest(r, w, handlers) ==
  LET w2 == [w EXCEPT ![r.store] = HostDelete(w[r.store], r.id)]
      m == trigger(handlers, "delete", r.store, r.id)
  IN IF m.thrown THEN Thrown(w2, r.id, m)
     ELSE Effect(w2, r.id, "none", "resolved", FALSE, <<>>, EmptyRecord,
                 HandlersOf(m), m.log)

\* a variant of seed's onsuccess that triggers nothing
seedRequestSilent(r, w, handlers) ==
  LET res == HostAdd(r.store, w[r.store], r.rec)
      w2 == [w EXCEPT ![r.store] = res.st]
  IN IF res.err # "none"
       THEN Effect(w, res.key, res.err, "rejected", TRUE, <<>>, EmptyRecord,
                   handlers, <<>>)
     ELSE Effect(w2, res.key, "none", "resolved", FALSE, <<>>, r.rec,
                 handlers, <<>>)

\* seed: store.add(fullData), request.onerror and request.onsuccess
seedRequest(r, w, handlers) ==
  LET res == HostAdd(r.store, w[r.store], r.rec)
      w2 == [w EXCEPT ![r.store] = res.st]
      m == trigger(handlers, "create", r.store, r.rec)
  IN IF res.err # "none"
       THEN Effect(w, res.key, res.err, "rejected", TRUE, <<>>, EmptyRecord,
                   handlers, <<>>)
     ELSE IF m.thrown THEN Thrown(w2, res.key, m)
     ELSE Effect(w2, res.key, "none", "resolved", FALSE, <<>>, r.rec,
                 HandlersOf(m), m.log)

handle(r, w, handlers) ==
  CASE r.op = "create" -> createRequest(r, w, handlers)
    [] r.op = "update" /\ r.rk = "get" -> updateGetRequest(r, w, handlers)
    [] r.op = "update" /\ r.rk = "put" -> updatePutRequest(r, w, handlers)
    [] r.op = "delete" -> deleteRequest(r, w, handlers)
    [] OTHER -> seedRequest(r, w, handlers)

\* what settled: the operation, its input, its result, the records of its
\* store in the transaction's view before and after the request, the handlers
\* of its event kind when the request completed, and the dispatch
OpSummary(via, r, e, w, handlers) ==
  [op |-> r.op, via |-> via, store |-> r.store, input |-> r.input,
   id |-> e.key, outcome |-> e.settle, err |-> e.err, result |-> e.result,
   before |-> w[r.store].recs, after |-> e.w[r.store].recs,
   subs |-> handlers[EventOf(r.op)], log |-> e.log, now |-> r.now]

TxSummary(kind, outcome, cb, written, failed) ==
  [kind |-> kind, outcome |-> outcome, cb |-> cb, written |-> written,
   failed |-> failed, done |-> <<>>]

\* ---------------------------------------------------------------- model methods
\* What the caller asks for: a create, update or delete on a store, or (inside
\* the callback of transaction()) a wait for something that is no store
\* request, a throw, or the return of the callback.
Step(t, s, rec, id) == [t |-> t, store |-> s, rec |-> rec, id |-> id]

UserInputs ==
  {[id |-> 1, email |-> 10, name |-> 20], [id |-> 2, email |-> 10, name |-> 22],
   [id |-> 2, email |-> 11, name |-> 22], [email |-> 10, name |-> 20]}
PostInputs == {EmptyRecord, [published |-> 41]}
CreateInputs(s) == IF s = "users" THEN UserInputs ELSE PostInputs

UpdateInputs(s) ==
  IF s = "users" THEN {[name |-> 21], [email |-> 11], [id |-> 2, email |-> 11]}
  ELSE {[published |-> 41], [id |-> 2]}
Ids(s) == {1}

NoReq == Req("none", "none", "users", EmptyRecord, 0, EmptyRecord, 0)

\* The synchronous part of create, update and delete (the executor of the
\* promise up to the first request): the request issued, or the error thrown.
\* store.add throws DataError for a record without a key in a store without a
\* key generator.
createCall(s, data, now) ==
  LET fullData == applyDefaults(s, data, now)
  IN IF primaryKeyField(s) = "undefined"
       THEN [ok |-> FALSE, err |-> "NoPrimaryKey", req |-> NoReq]
     ELSE IF HostAdd(s, EmptyStore, fullData).err = "DataError"
       THEN [ok |-> FALSE, err |-> "DataError", req |-> NoReq]
     ELSE [ok |-> TRUE, err |-> "none",
           req |-> Req("add", "create", s, fullData, 0, data, now)]

\* (ids are values of the key's type: the typeof id === "boolean" branch of
\* update and delete is never taken)
updateCall(s, id, data, now) ==
  [ok |-> TRUE, err |-> "none",
   req |-> Req("get", "update", s, EmptyRecord, id, data, now)]

deleteCall(s, id, now) ==
  [ok |-> TRUE, err |-> "none",
   req |-> Req("delete", "delete", s, EmptyRecord, id, EmptyRecord, now)]

Issue(step, now) ==
  CASE step.t = "create" -> createCall(step.store, step.rec, now)
    [] step.t = "update" -> updateCall(step.store, step.id, step.rec, now)
    [] OTHER -> deleteCall(step.store, step.id, now)

\* the summary of a call that threw before it issued a request
SyncFailure(via, step, err, w, now) ==
  [NoOp EXCEPT !.op = step.t, !.via = via, !.store = step.store,
               !.input = step.rec, !.id = step.id, !.outcome = "rejected",
               !.err = err, !.before = w[step.store].recs,
               !.after = w[step.store].recs,
               !.subs = eventHandlers[step.t], !.now = now]

\* models.<store>.create / update / delete without a caller's transaction:
\* the call opens its own read-write transaction on the store (the
\* application has fewer than live calls pending)
ModelCallWhile(step, live) ==
  LET now == nCalls + 1
      call == Issue(step, now)
  IN /\ nCalls < MaxCalls
     /\ Len(txs) < live
     /\ nCalls' = now
     /\ txs' = IF call.ok
                 THEN Append(txs, Tx("model", {step.store}, <<call.req>>))
                 ELSE txs
     /\ lastOp' = IF call.ok THEN NoOp
                  ELSE SyncFailure("model", step, call.err, db, now)
     /\ lastTx' = NoTx
     /\ lastEv' = NoEv
     /\ UNCHANGED <<versionVars, queryVars, schemaVars, db, eventHandlers, nextWrapper, closures, onceCalls, removed>>

ModelCall(step) == ModelCallWhile(step, MaxLive)

Create(s, data) == ModelCall(Step("create", s, data, 0))
Update(s, id, data) == ModelCall(Step("update", s, data, id))
Delete(s, id) == ModelCall(Step("delete", s, EmptyRecord, id))

\* the members of the object createModelMethods returns
ModelMethods == {"create", "findAll", "findById", "update", "delete"}

\* what a caller passes to upsert
UpsertArgs ==
  {[where |-> [email |-> 10],
    create |-> [id |-> 2, email |-> 10, name |-> 22],
    update |-> [name |-> 21]],
   [where |-> [id |-> 1],
    create |-> [id |-> 1, email |-> 11, name |-> 20],
    update |-> [email |-> 10]]}

\* models.<store>[method](args) for a method the object may lack: the member
\* is undefined and the call expression throws a TypeError at the caller,
\* before any transaction is opened
MemberCall(method, s, args) ==
  /\ method \notin ModelMethods
  /\ nCalls < MaxCalls
  /\ nCalls' = nCalls + 1
  /\ lastOp' = [NoOp EXCEPT !.op = method, !.store = s, !.input = args,
                            !.outcome = "thrown", !.err = "TypeError",
                            !.before = db[s].recs, !.after = db[s].recs,
                            !.now = nCalls + 1]
  /\ lastTx' = NoTx
  /\ lastEv' = NoEv
  /\ UNCHANGED <<versionVars, queryVars, schemaVars, db, txs, eventHandlers, nextWrapper, closures, onceCalls, removed>>

Upsert(s, args) == MemberCall("upsert", s, args)

\* The host runs the next request of a transaction of a model method and
\* calls its handler; the transaction commits when the handler leaves no
\* request behind, and is rolled back when the request failed or the handler
\* threw.
ModelRequest(i) ==
  /\ i \in 1..Len(txs)
  /\ Runnable(i)
  /\ txs[i].kind = "model"
  /\ \E t \in {txs[i]} : \E r \in {Head(t.q)} : \E w \in {View(t)} :
     \E e \in {handle(r, w, eventHandlers)} :
     /\ eventHandlers' = e.handlers
     /\ onceCalls' = CountOnce(onceCalls, e.log)
     /\ IF e.settle = "none"
          THEN /\ txs' = [txs EXCEPT ![i] = [t EXCEPT !.q = e.next,
                                                      !.started = TRUE,
                                                      !.work = e.w]]
               /\ db' = db
               /\ lastOp' = NoOp
          ELSE /\ txs' = RemoveAt(txs, i)
               /\ db' = IF e.abort THEN db ELSE Commit(t.scope, e.w)
               /\ lastOp' = OpSummary("model", r, e, w, eventHandlers)
     /\ lastTx' = NoTx
     /\ lastEv' = NoEv
     /\ UNCHANGED <<versionVars, queryVars, schemaVars, nCalls, nextWrapper, closures, removed>>

\* ---------------------------------------------------------------- transaction
\* a write of the callback counts as visible on stores d when the record it
\* wrote is the record d holds under its key
Visible(d, s, key, rec) == findById(d, s, key) = rec

\* the steps the callback of transaction() may take next
TrxSteps ==
  {Step("create", "users", d, 0) : d \in {[id |-> 1, email |-> 10, name |-> 20],
                                          [email |-> 10, name |-> 20]}}
    \cup {Step("create", "posts", EmptyRecord, 0)}
    \cup {Step("update", "users", [name |-> 21], 1)}
    \cup {Step("delete", "users", EmptyRecord, 1)}
EndSteps ==
  {Step(t, "users", EmptyRecord, 0) : t \in {"wait", "throw", "return"}}

\* The callback of transaction() runs on from a point where none of its
\* requests is pending, inside the task of the handler that resumed it, so
\* that the transaction t is still active. It issues the request of an
\* awaited trx method, or awaits something else (the transaction, left
\* without a request, commits and oncomplete resolves), or throws (the catch
\* of transaction() aborts and rejects), or returns. A trx method that throws
\* before it issues its request rejects, and the callback with it.
callback(t, w, started, step, now) ==
  LET call == Issue(step, now)
      done == [t EXCEPT !.q = <<>>, !.started = FALSE, !.work = NoWork,
                        !.open = FALSE]
  IN CASE step.t = "wait" ->
            [keep |-> TRUE, commit |-> TRUE,
             tx |-> [done EXCEPT !.cb = "waiting", !.outcome = "resolved"],
             last |-> TxSummary("transaction", "resolved", "waiting",
                                t.written, FALSE)]
       [] step.t = "throw" ->
            [keep |-> FALSE, commit |-> FALSE, tx |-> done,
             last |-> TxSummary("transaction", "rejected", "rejected",
                                t.written, FALSE)]
       [] step.t = "return" ->
            [keep |-> FALSE, commit |-> TRUE, tx |-> done,
             last |-> TxSummary("transaction", "resolved", "returned",
                                t.written, FALSE)]
       [] call.ok ->
            [keep |-> TRUE, commit |-> FALSE,
             tx |-> [t EXCEPT !.q = <<call.req>>, !.started = started,
                              !.work = IF started THEN w ELSE NoWork,
                              !.steps = t.steps + 1, !.cb = "running"],
             last |-> NoTx]
       [] OTHER ->
            [keep |-> FALSE, commit |-> FALSE, tx |-> done,
             last |-> TxSummary("transaction", "rejected", "rejected",
                                t.written, TRUE)]

NextSteps(t) == IF t.steps < MaxSteps THEN TrxSteps \cup EndSteps ELSE EndSteps

\* transaction(callback): a read-write transaction on every store of the
\* schema is opened and the callback runs up to its first await. The
\* application calls it when none of its earlier calls is pending.
Transaction(step) ==
  LET now == nCalls + 1
      c == callback(Tx("trx", Stores, <<>>), db, FALSE, step, now)
  IN /\ nCalls < MaxCalls
     /\ txs = <<>>
     /\ step \in NextSteps(Tx("trx", Stores, <<>>))
     /\ nCalls' = now
     /\ txs' = IF c.keep THEN Append(txs, c.tx) ELSE txs
     /\ lastTx' = c.last
     /\ lastOp' = IF c.last.failed
                    THEN SyncFailure("trx", step, Issue(step, now).err, db, now)
                    ELSE NoOp
     /\ lastEv' = NoEv
     /\ UNCHANGED <<versionVars, queryVars, schemaVars, db, eventHandlers, nextWrapper, closures, onceCalls, removed>>

\* The host runs the pending request of a transaction() and calls its
\* handler. A resolved trx method resumes the callback, which takes its next
\* step; a rejected one makes the callback reject, and the catch of
\* transaction() aborts and rejects; a handler in which a subscriber threw
\* leaves the trx method, the callback and transaction() pending, and the
\* host aborts the transaction.
TrxRequest(i, step) ==
  /\ i \in 1..Len(txs)
  /\ Runnable(i)
  /\ txs[i].kind = "trx"
  /\ \E t \in {txs[i]} : \E r \in {Head(t.q)} : \E w \in {View(t)} :
     \E e \in {handle(r, w, eventHandlers)} :
     \E t2 \in {[t EXCEPT !.q = <<>>,
                          !.written =
                            IF r.op # "delete"
                                 /\ ~Visible(db, r.store, e.key, e.result)
                              THEN @ \cup {<<r.store, e.key, e.result>>}
                              ELSE @]} :
     \E c \in {callback(t2, e.w, TRUE, step, nCalls)} :
     /\ step \in NextSteps(t)
     /\ eventHandlers' = e.handlers
     /\ onceCalls' = CountOnce(onceCalls, e.log)
     /\ CASE e.settle = "none" ->
               /\ txs' = [txs EXCEPT ![i] = [t EXCEPT !.q = e.next,
                                                       !.started = TRUE,
                                                       !.work = e.w]]
               /\ db' = db
               /\ lastOp' = NoOp
               /\ lastTx' = NoTx
          [] e.settle = "hung" ->
               /\ txs' = RemoveAt(txs, i)
               /\ db' = db
               /\ lastOp' = OpSummary("trx", r, e, w, eventHandlers)
               /\ lastTx' = TxSummary("transaction", "hung", "hung",
                                      t.written, FALSE)
          [] e.settle = "rejected" ->
               /\ txs' = RemoveAt(txs, i)
               /\ db' = db
               /\ lastOp' = OpSummary("trx", r, e, w, eventHandlers)
               /\ lastTx' = TxSummary("transaction", "rejected", "rejected",
                                      t.written, TRUE)
          [] OTHER ->
               /\ txs' = IF c.keep THEN [txs EXCEPT ![i] = c.tx]
                         ELSE RemoveAt(txs, i)
               /\ db' = IF c.commit THEN Commit(t.scope, e.w) ELSE db
               /\ lastOp' = OpSummary("trx", r, e, w, eventHandlers)
               /\ lastTx' = c.last
     /\ lastEv' = NoEv
     /\ UNCHANGED <<versionVars, queryVars, schemaVars, nCalls, nextWrapper, closures, removed>>

\* The callback of transaction() resumes in a later task, after the thing it
\* awaited that was no store request. Its transaction has committed: a trx
\* method now throws (the transaction is finished) and the callback rejects
\* like on a throw of its own, but transaction.abort() in the catch of
\* transaction() throws too, before reject(err) is reached.
ResumeSteps == {"method", "throw", "return"}
CallbackResume(i, what) ==
  LET t == txs[i]
  IN /\ i \in 1..Len(txs)
     /\ ~t.open
     /\ t.cb = "waiting"
     /\ txs' = RemoveAt(txs, i)
     /\ lastTx' = TxSummary("transaction", t.outcome,
                            IF what = "return" THEN "returned" ELSE "rejected",
                            t.written, what = "method")
     /\ lastOp' = NoOp
     /\ lastEv' = NoEv
     /\ UNCHANGED <<versionVars, queryVars, schemaVars, db, nCalls, evVars>>

\* ---------------------------------------------------------------- seed
\* the records a caller seeds, each with the store it is listed under
SeedRecords ==
  {<<"users", [id |-> 1, email |-> 10, name |-> 20]>>,
   <<"users", [id |-> 2, email |-> 11, name |-> 22]>>,
   <<"users", [email |-> 11, name |-> 20]>>,
   <<"posts", EmptyRecord>>}

\* data lists every store once: the records of one store are contiguous
Grouped(data) ==
  \A i, j, k \in 1..Len(data) :
    (i < j /\ j < k /\ data[i][1] = data[k][1]) => data[j][1] = data[i][1]

SeedInputs ==
  {data \in UNION {[1..n -> SeedRecords] : n \in 1..MaxSeed} : Grouped(data)}

\* The loops of seed(): applyDefaults and store.add for each record in turn.
\* A store.add that throws ends the executor: the promise is rejected, the
\* requests issued so far stay in the transaction and oncomplete is never
\* assigned.
RECURSIVE seedLoop(_, _, _, _)
seedLoop(data, j, q, now) ==
  IF j > Len(data) THEN [q |-> q, err |-> "none"]
  ELSE LET s == data[j][1]
           fullData == applyDefaults(s, data[j][2], now)
       IN IF HostAdd(s, EmptyStore, fullData).err = "DataError"
            THEN [q |-> q, err |-> "DataError"]
            ELSE seedLoop(data, j + 1,
                          Append(q, Req("add", "seed", s, fullData, 0,
                                        data[j][2], now)),
                          now)

\* seed(data): one read-write transaction on the stores data lists. The
\* application calls it when none of its earlier calls is pending.
Seed(data) ==
  LET now == nCalls + 1
      loop == seedLoop(data, 1, <<>>, now)
      scope == {data[j][1] : j \in 1..Len(data)}
      t == [Tx("seed", scope, loop.q) EXCEPT
              !.outcome = IF loop.err = "none" THEN "pending" ELSE "rejected"]
  IN /\ nCalls < MaxCalls
     /\ txs = <<>>
     /\ nCalls' = now
     /\ txs' = IF loop.q = <<>> THEN txs ELSE Append(txs, t)
     /\ lastTx' = IF loop.q = <<>>
                    THEN TxSummary("seed", "rejected", "none", {}, TRUE)
                    ELSE NoTx
     /\ lastOp' = NoOp
     /\ lastEv' = NoEv
     /\ UNCHANGED <<versionVars, queryVars, schemaVars, db, eventHandlers, nextWrapper, closures, onceCalls, removed>>

\* what seed() did with one record: the record the caller passed, the key its
\* add got, the create subscribers at that moment and the dispatch
SeedRecord(r, e, handlers) ==
  [store |-> r.store, input |-> r.input, now |-> r.now, key |-> e.key,
   subs |-> handlers["create"], log |-> e.log]

\* The host runs the next request of a seed() and calls its handler.
\* onsuccess triggers "create" with fullData; onerror rejects and the host
\* aborts the transaction; a subscriber that throws aborts it too, and the
\* requests still pending then fail and reject the promise. When the last
\* request has succeeded the transaction commits, and oncomplete (if it was
\* assigned) resolves.
SeedRequest(i) ==
  /\ i \in 1..Len(txs)
  /\ Runnable(i)
  /\ txs[i].kind = "seed"
  /\ \E t \in {txs[i]} : \E r \in {Head(t.q)} : \E w \in {View(t)} :
     \E e \in {handle(r, w, eventHandlers)} :
     \E last \in {Len(t.q) = 1} :
     \E written \in {IF e.err = "none"
                        THEN t.written
                               \cup {<<r.store, e.key, e.w[r.store].recs[e.key]>>}
                        ELSE t.written} :
     \E done \in {Append(t.done, SeedRecord(r, e, eventHandlers))} :
     /\ eventHandlers' = e.handlers
     /\ onceCalls' = CountOnce(onceCalls, e.log)
     /\ lastOp' = OpSummary("seed", r, e, w, eventHandlers)
     /\ CASE e.settle = "rejected" ->
               /\ txs' = RemoveAt(txs, i)
               /\ db' = Abort(t.scope, e.w)
               /\ lastTx' = TxSummary("seed", "rejected", "none", t.written, TRUE)
          [] e.settle = "hung" ->
               /\ txs' = RemoveAt(txs, i)
               /\ db' = db
               /\ lastTx' = TxSummary("seed",
                                      IF t.outcome = "rejected" \/ ~last
                                        THEN "rejected" ELSE "hung",
                                      "none", t.written, FALSE)
          [] last ->
               /\ txs' = RemoveAt(txs, i)
               /\ db' = Commit(t.scope, e.w)
               /\ lastTx' = [TxSummary("seed",
                                       IF t.outcome = "rejected"
                                         THEN "rejected" ELSE "resolved",
                                       "none", written, FALSE)
                               EXCEPT !.done = done]
          [] OTHER ->
               /\ txs' = [txs EXCEPT ![i] = [t EXCEPT !.q = Tail(t.q),
                                                       !.started = TRUE,
                                                       !.work = e.w,
                                                       !.written = written,
                                                       !.done = done]]
               /\ db' = db
               /\ lastTx' = NoTx
     /\ lastEv' = NoEv
     /\ UNCHANGED <<versionVars, queryVars, schemaVars, nCalls, nextWrapper, closures, removed>>

\* ---------------------------------------------------------------- query builder
\* bounds of the queries
\* most records in the queried store
MaxRecords == 2
\* most where() calls on one builder
MaxFilters == 2
\* largest count passed to limit() and offset()
MaxPage == 1

\* Field values as run() sees them: a string (its characters as numbers) or a
\* number, each with its typeof.
Str(chars) == [type |-> "string", val |-> chars]
Num(n) == [type |-> "number", val |-> n]
typeof(v) == v.type

\* a === b
StrictEquals(a, b) == typeof(a) = typeof(b) /\ a.val = b.val

\* String.prototype.startsWith and endsWith
startsWith(str, search) ==
  Len(search) <= Len(str) /\ SubSeq(str, 1, Len(search)) = search
endsWith(str, search) ==
  Len(search) <= Len(str)
    /\ SubSeq(str, Len(str) - Len(search) + 1, Len(str)) = search

\* a < b for strings: the first differing character decides, a proper prefix
\* is smaller
RECURSIVE StringLess(_, _)
StringLess(a, b) ==
  IF b = <<>> THEN FALSE
  ELSE IF a = <<>> THEN TRUE
  ELSE IF Head(a) # Head(b) THEN Head(a) < Head(b)
  ELSE StringLess(Tail(a), Tail(b))

\* a < b and a > b for two values of one type
LessThan(a, b) ==
  IF typeof(a) = "string" THEN StringLess(a.val, b.val) ELSE a.val < b.val
GreaterThan(a, b) == LessThan(b, a)

\* The records a store of the application can hold: the key, a string field
\* and a number field. The names are "ab" and "b".
Names == {<<1, 2>>, <<2>>}
Ages == {1, 2}
QueryRecord(key, name, age) ==
  [id |-> Num(key), name |-> Str(name), age |-> Num(age)]

\* the stores: up to MaxRecords records under the keys 1, 2, ... which is the
\* order in which the cursor yields them
StoreContents ==
  {[j \in DOMAIN c |-> QueryRecord(j, c[j][1], c[j][2])] :
     c \in UNION {[1..n -> Names \X Ages] : n \in 0..MaxRecords}}

\* the filters the caller adds with where(field, operator, value), in this
\* order, each at most once
WhereArgs ==
  <<[field |-> "name", operator |-> "equals", value |-> Str(<<2>>)],
    [field |-> "name", operator |-> "startsWith", value |-> Str(<<2>>)],
    [field |-> "name", operator |-> "endsWith", value |-> Str(<<2>>)],
    [field |-> "age", operator |-> "equals", value |-> Num(1)],
    [field |-> "age", operator |-> "startsWith", value |-> Str(<<2>>)],
    [field |-> "age", operator |-> "equals", value |-> Str(<<2>>)]>>

\* applyFilters(record): filters.every(...)
matches(filter, record) ==
  LET fieldValue == record[filter.field]
  IN CASE filter.operator = "equals" -> StrictEquals(fieldValue, filter.value)
       [] filter.operator = "startsWith" ->
            typeof(fieldValue) = "string"
              /\ startsWith(fieldValue.val, filter.value.val)
       [] filter.operator = "endsWith" ->
            typeof(fieldValue) = "string"
              /\ endsWith(fieldValue.val, filter.value.val)
       [] OTHER -> TRUE

\* a variant of applyFilters with filters.some(...)
applyFiltersSome(b, record) ==
  \E j \in 1..Len(b.filters) : matches(b.filters[j], record)

applyFilters(b, record) ==
  \A j \in 1..Len(b.filters) : matches(b.filters[j], record)

\* a variant of the comparator that ignores sortOrder
compareAscending(b, x, y) ==
  IF StrictEquals(x[b.sortField], y[b.sortField]) THEN 0
  ELSE IF GreaterThan(x[b.sortField], y[b.sortField]) THEN 1 ELSE -1

\* the comparator of applySorting
compare(b, x, y) ==
  LET aValue == x[b.sortField]
      bValue == y[b.sortField]
  IN IF StrictEquals(aValue, bValue) THEN 0
     ELSE IF b.sortOrder = "asc"
       THEN (IF GreaterThan(aValue, bValue) THEN 1 ELSE -1)
     ELSE (IF LessThan(aValue, bValue) THEN 1 ELSE -1)

\* Array.prototype.sort with that comparator: a stable sort. x goes before
\* the first element of the sorted list that compares greater than x.
RECURSIVE insert(_, _, _)
insert(b, sorted, x) ==
  IF sorted = <<>> THEN <<x>>
  ELSE IF compare(b, Head(sorted), x) > 0 THEN <<x>> \o sorted
  ELSE <<Head(sorted)>> \o insert(b, Tail(sorted), x)

RECURSIVE sort(_, _, _)
sort(b, sorted, rest) ==
  IF rest = <<>> THEN sorted
  ELSE sort(b, insert(b, sorted, Head(rest)), Tail(rest))

applySorting(b, rows) ==
  IF b.sortField = "undefined" THEN rows ELSE sort(b, <<>>, rows)

\* if (count): undefined and 0 are falsy
Truthy(n) == n.set /\ n.count # 0

\* run(): the cursor's onsuccess for the record at position j, then
\* cursor.continue(); at the end of the store, or as soon as limitCount
\* results are collected, the promise resolves with the sorted results
RECURSIVE cursorFrom(_, _, _, _, _)
cursorFrom(b, recs, j, rows, skipped) ==
  IF j > Len(recs) THEN applySorting(b, rows)
  ELSE IF ~applyFilters(b, recs[j]) THEN cursorFrom(b, recs, j + 1, rows, skipped)
  ELSE IF Truthy(b.offsetCount) /\ skipped < b.offsetCount.count
    THEN cursorFrom(b, recs, j + 1, rows, skipped + 1)
  ELSE IF Truthy(b.limitCount) /\ Len(rows) + 1 >= b.limitCount.count
    THEN applySorting(b, Append(rows, recs[j]))
  ELSE cursorFrom(b, recs, j + 1, Append(rows, recs[j]), skipped)

run(b, recs) == cursorFrom(b, recs, 1, <<>>, 0)

\* where(field, operator, value) with the k-th filter of WhereArgs
Where(k) ==
  /\ ~results.done
  /\ Len(builder.filters) < MaxFilters
  /\ \A j \in 1..Len(builder.filters) :
       \E i \in 1..(k - 1) : builder.filters[j] = WhereArgs[i]
  /\ builder' = [builder EXCEPT !.filters = Append(@, WhereArgs[k])]
  /\ UNCHANGED <<versionVars, schemaVars, evVars, dbVars, records, results>>

\* orderBy(field, order)
OrderBy(field, order) ==
  /\ ~results.done
  /\ builder' = [builder EXCEPT !.sortField = field, !.sortOrder = order]
  /\ UNCHANGED <<versionVars, schemaVars, evVars, dbVars, records, results>>

\* limit(count)
Limit(count) ==
  /\ ~results.done
  /\ builder' = [builder EXCEPT !.limitCount = SetTo(count)]
  /\ UNCHANGED <<versionVars, schemaVars, evVars, dbVars, records, results>>

\* offset(count)
Offset(count) ==
  /\ ~results.done
  /\ builder' = [builder EXCEPT !.offsetCount = SetTo(count)]
  /\ UNCHANGED <<versionVars, schemaVars, evVars, dbVars, records, results>>

\* run(), from openCursor to the resolve of its promise. The read-only
\* transaction of the cursor sees one state of the store.
Run ==
  /\ ~results.done
  /\ results' = [done |-> TRUE, rows |-> run(builder, records)]
  /\ UNCHANGED <<versionVars, schemaVars, evVars, dbVars, records, builder>>

\* The queries: a store holding some records, then one builder from
\* query(store) to run().
InitQuery ==
  /\ idb = FirstInit.d
  /\ connections = FirstInit.conns
  /\ orm = [FirstInit.o EXCEPT !.state = "open"]
  /\ hookCalls = <<>>
  /\ lastV = NoVersionCall
  /\ records \in StoreContents
  /\ builder = NewBuilder
  /\ results = NoResults
  /\ declared = schema["users"]
  /\ created = NotCreated
  /\ eventHandlers = [k \in Kinds |-> <<>>]
  /\ nextWrapper = 1
  /\ closures = {}
  /\ onceCalls = [w \in {} |-> 0]
  /\ removed = {}
  /\ lastEv = NoEv
  /\ db = [s \in Stores |-> EmptyStore]
  /\ txs = <<>>
  /\ nCalls = 0
  /\ lastOp = NoOp
  /\ lastTx = NoTx

NextQuery ==
  \/ \E k \in 1..Len(WhereArgs) : Where(k)
  \/ \E field \in {"name", "age"}, order \in {"asc", "desc"} : OrderBy(field, order)
  \/ \E count \in 0..MaxPage : Limit(count)
  \/ \E count \in 0..MaxPage : Offset(count)
  \/ Run

SpecQuery == InitQuery /\ [][NextQuery]_vars

\* ---------------------------------------------------------------- init and migrate
\* how a call that settled as outcome leaves the instance
Settle(o, outcome) ==
  [o EXCEPT !.state = CASE outcome = "resolved" -> "open"
                        [] outcome = "pending" -> "blocked"
                        [] OTHER -> "failed"]

\* ORM.init({schema, versioning, migrations}): a new instance and its
\* initializeDatabase(), up to the point where init resolves or rejects, or
\* its versioned open waits for the other connections or has failed.
\* Instances made earlier keep their connections open.
InitCall(versioning, migrations, fail) ==
  /\ Cardinality(connections) < MaxConnections
  /\ \E r \in {initializeDatabase(NewOrm(versioning, migrations), idb,
                                    connections, fail)} :
       /\ idb' = r.d
       /\ connections' = r.conns
       /\ orm' = Settle(r.o, r.outcome)
       /\ hookCalls' = hookCalls \o r.hook
       /\ lastV' = [call |-> "init", outcome |-> r.outcome, err |-> r.err]
  /\ UNCHANGED <<evVars, dbVars, queryVars, schemaVars>>

\* migrate(targetVersion) on the instance that init resolved with
Migrate(targetVersion, fail) ==
  /\ orm.state = "open"
  /\ Cardinality(connections) < MaxConnections
  /\ IF isAutoVersioning(orm)
       THEN /\ lastV' = [call |-> "migrate", outcome |-> "rejected",
                         err |-> "Cannot manually migrate when using auto versioning"]
            /\ UNCHANGED <<idb, connections, orm, hookCalls>>
       ELSE \E r \in {migrateDatabase(orm, idb, connections, targetVersion,
                                      fail)} :
              /\ idb' = r.d
              /\ connections' = r.conns
              /\ orm' = IF r.outcome = "pending" THEN Settle(r.o, "pending")
                        ELSE r.o
              /\ hookCalls' = hookCalls \o r.hook
              /\ lastV' = [call |-> "migrate", outcome |-> r.outcome,
                           err |-> r.err]
  /\ UNCHANGED <<evVars, dbVars, queryVars, schemaVars>>

\* The page is closed or reloaded: its connections close and its engine
\* instances are gone, what a blocked open was waiting to do with them.
Restart ==
  /\ connections # {}
  /\ connections' = {}
  /\ orm' = NoOrm
  /\ hookCalls' = <<>>
  /\ lastV' = [NoVersionCall EXCEPT !.call = "restart"]
  /\ UNCHANGED <<idb, evVars, dbVars, queryVars, schemaVars>>

\* The databases an earlier run can have left under dbName: none, or one at
\* some version that holds the stores of the schema, or the users store only,
\* or the users store from when email was not unique.
Layouts ==
  {applySchema(NoDatabase.stores),
   [s \in {"users"} |-> StoreLayout(s)],
   [s \in {"users"} |-> [StoreLayout(s) EXCEPT !.indexes = {}]]}
Databases ==
  {NoDatabase}
    \cup {[version |-> v, stores |-> l] : v \in 1..MaxVersion, l \in Layouts}

\* The version engine on a host with one of these databases, before the
\* first init of the run.
InitVersion ==
  /\ idb \in Databases
  /\ connections = {}
  /\ orm = NoOrm
  /\ hookCalls = <<>>
  /\ lastV = NoVersionCall
  /\ records = <<>>
  /\ builder = NewBuilder
  /\ results = NoResults
  /\ declared = schema["users"]
  /\ created = NotCreated
  /\ eventHandlers = [k \in Kinds |-> <<>>]
  /\ nextWrapper = 1
  /\ closures = {}
  /\ onceCalls = [w \in {} |-> 0]
  /\ removed = {}
  /\ lastEv = NoEv
  /\ db = [s \in Stores |-> EmptyStore]
  /\ txs = <<>>
  /\ nCalls = 0
  /\ lastOp = NoOp
  /\ lastTx = NoTx

Versionings == {Auto} \cup {Manual(v) : v \in 0..MaxVersion}

NextVersion ==
  \/ \E versioning \in Versionings, migrations \in BOOLEAN :
     \E fail \in HostFailures : InitCall(versioning, migrations, fail)
  \/ \E targetVersion \in 0..MaxVersion : \E fail \in BOOLEAN :
       Migrate(targetVersion, fail)
  \/ Restart

SpecVersion == InitVersion /\ [][NextVersion]_vars

\* ---------------------------------------------------------------- store creation
\* most fields of a declared store
MaxFields == 2

\* the names of the fields, in the order of their declaration
FieldPool == <<"id", "email", "name", "slug">>

FieldDefs ==
  {FieldDef(pk, uq, df) :
     pk \in BOOLEAN, uq \in BOOLEAN, df \in {"none", "autoincrement"}}

\* the stores a schema can declare: one to MaxFields fields, any of them
\* marked primaryKey or unique
StoreSchemas ==
  UNION {[{FieldPool[j] : j \in 1..n} -> FieldDefs] : n \in 1..MaxFields}

\* Object.keys(fields)
KeysOf(fields) == SubSeq(FieldPool, 1, Cardinality(DOMAIN fields))

\* An upgrade runs applySchema for the declared store, which the database
\* does not hold.
UpgradeNeeded ==
  /\ ~created.done
  /\ created' = createObjectStore(KeysOf(declared), declared)
  /\ UNCHANGED <<declared, evVars, dbVars, queryVars, versionVars>>

InitSchema ==
  /\ declared \in StoreSchemas
  /\ created = NotCreated
  /\ idb = NoDatabase
  /\ connections = {}
  /\ orm = NoOrm
  /\ hookCalls = <<>>
  /\ lastV = NoVersionCall
  /\ records = <<>>
  /\ builder = NewBuilder
  /\ results = NoResults
  /\ eventHandlers = [k \in Kinds |-> <<>>]
  /\ nextWrapper = 1
  /\ closures = {}
  /\ onceCalls = [w \in {} |-> 0]
  /\ removed = {}
  /\ lastEv = NoEv
  /\ db = [s \in Stores |-> EmptyStore]
  /\ txs = <<>>
  /\ nCalls = 0
  /\ lastOp = NoOp
  /\ lastTx = NoTx

NextSchema == UpgradeNeeded

SpecSchema == InitSchema /\ [][NextSchema]_vars

\* ---------------------------------------------------------------- concurrent writers
\* most calls an application with concurrent writers has pending
MaxWriters == 2

\* a writer calls create, update or delete while calls of other writers are
\* pending
WriterCreate(s, data) ==
  ModelCallWhile(Step("create", s, data, 0), MaxWriters)
WriterUpdate(s, id, data) ==
  ModelCallWhile(Step("update", s, data, id), MaxWriters)
WriterDelete(s, id) ==
  ModelCallWhile(Step("delete", s, EmptyRecord, id), MaxWriters)

\* the users store holds one record, which the writers then change
InitWriters ==
  /\ idb = FirstInit.d
  /\ connections = FirstInit.conns
  /\ orm = [FirstInit.o EXCEPT !.state = "open"]
  /\ hookCalls = <<>>
  /\ lastV = NoVersionCall
  /\ records = <<>>
  /\ builder = NewBuilder
  /\ results = NoResults
  /\ declared = schema["users"]
  /\ created = NotCreated
  /\ eventHandlers = [k \in Kinds |-> <<>>]
  /\ nextWrapper = 1
  /\ closures = {}
  /\ onceCalls = [w \in {} |-> 0]
  /\ removed = {}
  /\ lastEv = NoEv
  /\ db = [s \in Stores |->
             IF s = "users"
               THEN HostAdd(s, EmptyStore, [id |-> 1, email |-> 10, name |-> 20]).st
               ELSE EmptyStore]
  /\ txs = <<>>
  /\ nCalls = 0
  /\ lastOp = NoOp
  /\ lastTx = NoTx

NextWriters ==
  \/ \E i \in Ids("users") : \E d \in UpdateInputs("users") :
       WriterUpdate("users", i, d)
  \/ \E i \in Ids("users") : WriterDelete("users", i)
  \/ \E d \in CreateInputs("users") : WriterCreate("users", d)
  \/ \E i \in 1..Len(txs) : ModelRequest(i)

SpecWriters == InitWriters /\ [][NextWriters]_vars

\* ---------------------------------------------------------------- upgrades
\* A store that an earlier run created and the schema does not declare.
LegacyLayout == [keyPath |-> "key", autoIncrement |-> FALSE, indexes |-> {}]

\* The databases an upgrade can find: those of Databases, and one whose users
\* store has no index on email and which holds a store outside the schema.
UpgradeDatabases ==
  Databases
    \cup {[version |-> v,
           stores |-> [s \in {"users", "legacy"} |->
                         IF s = "users"
                           THEN [StoreLayout(s) EXCEPT !.indexes = {}]
                           ELSE LegacyLayout]] : v \in 1..MaxVersion}

\* orm.raw().close(): the caller closes the connection of the instance that
\* init resolved with; the instance keeps the closed connection as its db.
RawClose ==
  /\ orm.state = "open"
  /\ orm.db \in connections
  /\ orm.db = Cardinality(connections)
  /\ connections' = connections \ {orm.db}
  /\ lastV' = [NoVersionCall EXCEPT !.call = "close"]
  /\ UNCHANGED <<idb, orm, hookCalls, evVars, dbVars, queryVars, schemaVars>>

\* The version engine on a host with one of these databases, whose users
\* store holds a record.
InitUpgrade ==
  /\ idb \in UpgradeDatabases
  /\ connections = {}
  /\ orm = NoOrm
  /\ hookCalls = <<>>
  /\ lastV = NoVersionCall
  /\ records = <<>>
  /\ builder = NewBuilder
  /\ results = NoResults
  /\ declared = schema["users"]
  /\ created = NotCreated
  /\ eventHandlers = [k \in Kinds |-> <<>>]
  /\ nextWrapper = 1
  /\ closures = {}
  /\ onceCalls = [w \in {} |-> 0]
  /\ removed = {}
  /\ lastEv = NoEv
  /\ db = [s \in Stores |->
             IF s = "users" /\ s \in DOMAIN idb.stores
               THEN HostAdd(s, EmptyStore, [id |-> 1, email |-> 10, name |-> 20]).st
               ELSE EmptyStore]
  /\ txs = <<>>
  /\ nCalls = 0
  /\ lastOp = NoOp
  /\ lastTx = NoTx

NextUpgrade ==
  \/ \E versioning \in Versionings, migrations \in BOOLEAN :
     \E fail \in HostFailures : InitCall(versioning, migrations, fail)
  \/ \E targetVersion \in 0..MaxVersion : \E fail \in BOOLEAN :
       Migrate(targetVersion, fail)
  \/ RawClose
  \/ Restart

SpecUpgrade == InitUpgrade /\ [][NextUpgrade]_vars

\* ---------------------------------------------------------------- subscribers
\* the application subscribes callback c to every kind of event before it
\* uses the data API
Subscribe(c) ==
  /\ nCalls = 0
  /\ TotalHandlers = 0
  /\ eventHandlers' =
       on(on(on(eventHandlers, "create", Handler(c, 0)),
             "update", Handler(c, 0)),
          "delete", Handler(c, 0))
  /\ lastEv' = [NoEv EXCEPT !.type = "on"]
  /\ UNCHANGED <<versionVars, queryVars, schemaVars, nextWrapper, closures, onceCalls, removed, dbVars>>

\* ---------------------------------------------------------------- specification
Next ==
  \/ \E s \in Stores : \E d \in CreateInputs(s) : Create(s, d)
  \/ \E s \in Stores : \E i \in Ids(s) : \E d \in UpdateInputs(s) : Update(s, i, d)
  \/ \E s \in Stores : \E i \in Ids(s) : Delete(s, i)
  \/ \E args \in UpsertArgs : Upsert("users", args)
  \/ \E i \in 1..Len(txs) : ModelRequest(i)
  \/ \E step \in TrxSteps \cup EndSteps : Transaction(step)
  \/ \E i \in 1..Len(txs) : \E step \in TrxSteps \cup EndSteps : TrxRequest(i, step)
  \/ \E i \in 1..Len(txs) : \E what \in ResumeSteps : CallbackResume(i, what)
  \/ \E data \in SeedInputs : Seed(data)
  \/ \E i \in 1..Len(txs) : SeedRequest(i)
  \/ \E c \in {"c1", "c2"} : Subscribe(c)

Spec == Init /\ [][Next]_vars

\* ---------------------------------------------------------------- claims
\* the fields the schema declares unique
DeclaredUnique(s) == {f \in FieldSet(s) : schema[s][f].unique}

\* record a holds in field f the value record b holds there
SameIn(f, a, b) == f \in DOMAIN a /\ f \in DOMAIN b /\ a[f] = b[f]

\* the write that settled in this step was not rolled back with its
\* transaction in this step
NotRolledBack == lastTx.outcome \notin {"rejected", "hung"}

\* C1: when a write of the callback of transaction() fails after an earlier
\* write of the callback succeeded, transaction() rejects, and afterwards no
\* record the callback wrote is visible in the stores.
C1_FailedWriteRollsBack ==
  (lastTx.kind = "transaction" /\ lastTx.failed /\ lastTx.written # {}) =>
     /\ lastTx.outcome = "rejected"
     /\ \A x \in lastTx.written : ~Visible(db, x[1], x[2], x[3])

\* C2: when the callback of transaction() throws or rejects, at any point and
\* whatever it awaited before, transaction() rejects, and afterwards no record
\* written through trx is visible in the stores.
C2_CallbackFailureRollsBack ==
  (lastTx.kind = "transaction" /\ lastTx.cb = "rejected") =>
     /\ lastTx.outcome = "rejected"
     /\ \A x \in lastTx.written : ~Visible(db, x[1], x[2], x[3])

\* C3: a create whose record holds, in a field declared unique, the value a
\* record of the store already holds there is rejected; the store keeps the
\* records it had, unchanged, the new record is not stored, and no create
\* event is dispatched.
C3_UniqueOnCreate ==
  LET s == lastOp.store
      fullData == applyDefaults(s, lastOp.input, lastOp.now)
  IN (/\ lastOp.op = "create"
      /\ \E k \in DOMAIN lastOp.before : \E f \in DeclaredUnique(s) :
             SameIn(f, lastOp.before[k], fullData))
     => /\ lastOp.outcome = "rejected"
        /\ lastOp.after = lastOp.before
        /\ lastOp.log = <<>>
        /\ (lastOp.via = "model" => db[s].recs = lastOp.before)

C3_Witness ==
  /\ lastOp.op = "create" /\ lastOp.store = "users"
  /\ lastOp.err = "ConstraintError"
  /\ lastOp.input = [id |-> 2, email |-> 10, name |-> 22]
  /\ lastOp.before = (1 :> [id |-> 1, email |-> 10, name |-> 20])
  /\ lastOp.subs = <<Handler("c1", 0)>>

\* C4: an update(id, partial) whose merged record would hold, in a field
\* declared unique, the value a record under another id holds there is
\* rejected; every record of the store is left as it was and no update event
\* is dispatched.
C4_UniqueOnUpdate ==
  LET s == lastOp.store
      merged == Merge(lastOp.before[lastOp.id], lastOp.input)
  IN (/\ lastOp.op = "update"
      /\ lastOp.id \in DOMAIN lastOp.before
      /\ \E k \in DOMAIN lastOp.before \ {lastOp.id} : \E f \in DeclaredUnique(s) :
             SameIn(f, lastOp.before[k], merged))
     => /\ lastOp.outcome = "rejected"
        /\ lastOp.after = lastOp.before
        /\ lastOp.log = <<>>

\* C5: a create that succeeds stores (and returns) a record in which every
\* field the input omits and the schema gives a default holds the default's
\* value: the declared value for static, the date of the call for now, the
\* result of the function called at the call for function; an omitted
\* autoincrement field is left out by applyDefaults and holds the key the
\* store assigned, a key no record of the store had.
C5_DefaultsOnCreate ==
  LET s == lastOp.store
      r == lastOp.result
  IN (lastOp.op = "create" /\ lastOp.outcome = "resolved") =>
       /\ lastOp.id \in DOMAIN lastOp.after
       /\ lastOp.after[lastOp.id] = r
       /\ (lastOp.via = "model" => Visible(db, s, lastOp.id, r))
       /\ \A f \in DOMAIN lastOp.input : SameIn(f, r, lastOp.input)
       /\ \A f \in FieldSet(s) \ DOMAIN lastOp.input :
            /\ schema[s][f].default = "static" =>
                 SameIn(f, r, With(EmptyRecord, f, StaticValue))
            /\ schema[s][f].default = "now" =>
                 SameIn(f, r, With(EmptyRecord, f, Date(lastOp.now)))
            /\ schema[s][f].default = "function" =>
                 SameIn(f, r, With(EmptyRecord, f, FnBase + lastOp.now))
            /\ schema[s][f].default = "autoincrement" =>
                 /\ f \notin DOMAIN applyDefaults(s, lastOp.input, lastOp.now)
                 /\ SameIn(f, r, With(EmptyRecord, f, lastOp.id))
                 /\ lastOp.id \notin DOMAIN lastOp.before

C5_Witness ==
  /\ lastOp.op = "create" /\ lastOp.store = "posts"
  /\ lastOp.outcome = "resolved"
  /\ lastOp.input = EmptyRecord
  /\ lastOp.now = 2
  /\ lastOp.result = [id |-> 2, published |-> StaticValue,
                      createdAt |-> Date(2), slug |-> FnBase + 2]
  /\ Visible(db, "posts", 2, lastOp.result)

\* C6: after update(id, partial) succeeds the record under id has the primary
\* key it had, its fields outside partial as they were and its fields in
\* partial as partial gives them, and no other record of the store was
\* created, changed or removed.
C6_UpdateFrame ==
  LET s == lastOp.store
      id == lastOp.id
      old == lastOp.before[id]
      new == lastOp.after[id]
  IN (lastOp.op = "update" /\ lastOp.outcome = "resolved") =>
       /\ id \in DOMAIN lastOp.after
       /\ SameIn(primaryKeyField(s), new, old)
       /\ \A f \in DOMAIN old \ DOMAIN lastOp.input : SameIn(f, new, old)
       /\ \A f \in DOMAIN lastOp.input : SameIn(f, new, lastOp.input)
       /\ DOMAIN lastOp.after = DOMAIN lastOp.before
       /\ \A k \in DOMAIN lastOp.before \ {id} : lastOp.after[k] = lastOp.before[k]

\* C7: update(id, partial) for an id under which the store holds no record is
\* rejected with the not-found error, leaves the store as it was and
\* dispatches no update event.
C7_UpdateNotFound ==
  (lastOp.op = "update" /\ lastOp.id \notin DOMAIN lastOp.before) =>
     /\ lastOp.outcome = "rejected"
     /\ lastOp.err = "NotFound"
     /\ lastOp.after = lastOp.before
     /\ lastOp.log = <<>>
     /\ (lastOp.via = "model" => db[lastOp.store].recs = lastOp.before)

C7_Witness ==
  /\ lastOp.op = "update" /\ lastOp.store = "users" /\ lastOp.id = 1
  /\ lastOp.err = "NotFound"
  /\ lastOp.before = (2 :> [id |-> 2, email |-> 11, name |-> 22])
  /\ db["users"].recs = lastOp.before
  /\ lastOp.subs = <<Handler("c1", 0)>>

\* C8: for every create, update or delete that succeeds (through models,
\* through trx or through seed) each callback subscribed to the kind of the
\* event at that moment is invoked exactly once, in order, with the kind, the
\* store and the record as it is stored, its primary key included (the id
\* for delete).
C8_EventPerWrite ==
  (lastOp.op # "none" /\ lastOp.outcome = "resolved" /\ NotRolledBack) =>
     /\ Len(lastOp.log) = Len(lastOp.subs)
     /\ \A j \in 1..Len(lastOp.subs) :
          /\ lastOp.log[j].cb = lastOp.subs[j].cb
          /\ lastOp.log[j].kind = EventOf(lastOp.op)
          /\ lastOp.log[j].store = lastOp.store
          /\ (lastOp.op = "delete" => lastOp.log[j].rec = lastOp.id)
          /\ (lastOp.op # "delete" =>
                lastOp.log[j].rec = lastOp.after[lastOp.id])

\* the handlers a dispatch invoked from the loop of the outermost trigger()
TopLevel(log) ==
  LET top == SelectSeq(log, LAMBDA e : e.d = 1)
  IN [j \in 1..Len(top) |-> Handler(top[j].cb, top[j].w)]

\* arr without every occurrence of h, the rest in its order
RECURSIVE Others(_, _)
Others(arr, h) ==
  IF arr = <<>> THEN <<>>
  ELSE IF Head(arr) = h THEN Others(Tail(arr), h)
  ELSE <<Head(arr)>> \o Others(Tail(arr), h)

\* C9: a callback registered with events.once(kind, cb) is invoked at most
\* once by its registration, over any sequence of triggers, nested triggers
\* and throwing dispatches included.
C9_OnceAtMostOnce == \A w \in DOMAIN onceCalls : onceCalls[w] <= 1

\* C10: after events.off(kind, cb) no later trigger of that kind invokes cb
\* through its on-registration (until cb is subscribed again); off leaves the
\* other handlers of the kind registered in their order, leaves the other
\* kinds alone, and a trigger that returns has invoked exactly the handlers
\* registered when it began, in their order.
C10_OffRemoves ==
  /\ [](lastEv.type = "trigger" =>
          \A j \in 1..Len(lastEv.log) :
             lastEv.log[j].w = 0 =>
               <<lastEv.log[j].kind, lastEv.log[j].cb>> \notin removed)
  /\ [][lastEv'.type = "off" =>
          /\ eventHandlers'[lastEv'.kind] =
               Others(eventHandlers[lastEv'.kind], Handler(lastEv'.cb, 0))
          /\ \A k \in Kinds \ {lastEv'.kind} :
               eventHandlers'[k] = eventHandlers[k]]_vars
  /\ [][(lastEv'.type = "trigger" /\ ~lastEv'.thrown) =>
          TopLevel(lastEv'.log) = eventHandlers[lastEv'.kind]]_vars

\* a trigger after off("create", c2) still invoked c1 and then c3
C10_Witness ==
  /\ lastEv.type = "trigger"
  /\ lastEv.kind = "create"
  /\ <<"create", "c2">> \in removed
  /\ ~lastEv.thrown
  /\ TopLevel(lastEv.log) = <<Handler("c1", 0), Handler("c3", 0)>>

\* how many registrations of h the array holds
Count(arr, h) == Cardinality({j \in 1..Len(arr) : arr[j] = h})

\* C11: calling the unsubscribe closure that events.on(kind, cb) returned
\* removes exactly that registration of cb: the other kinds and the other
\* subscribers of the kind stay as they were, in their order; one registration
\* of cb goes when the registration is still there; and a second call of the
\* closure, like a call after off(kind, cb), changes nothing.
C11_UnsubscribeExact ==
  [][lastEv'.type = "unsubscribe" =>
       /\ \A k \in Kinds \ {lastEv'.kind} : eventHandlers'[k] = eventHandlers[k]
       /\ Others(eventHandlers'[lastEv'.kind], Handler(lastEv'.cb, 0)) =
            Others(eventHandlers[lastEv'.kind], Handler(lastEv'.cb, 0))
       /\ lastEv'.live =>
            Count(eventHandlers'[lastEv'.kind], Handler(lastEv'.cb, 0)) =
              Count(eventHandlers[lastEv'.kind], Handler(lastEv'.cb, 0)) - 1
       /\ ~lastEv'.live => eventHandlers' = eventHandlers]_vars

\* s is the sequence t or a leading part of it
IsPrefix(s, t) == Len(s) <= Len(t) /\ s = SubSeq(t, 1, Len(s))

C13_SeedPersistsAndEmits ==
  [][(lastTx'.kind = "seed" /\ lastTx'.outcome = "resolved") =>
       LET done == lastTx'.done
       IN /\ Len(done) >= 1
          /\ \A i, j \in 1..Len(done) :
               (i # j /\ done[i].store = done[j].store) =>
                 done[i].key # done[j].key
          /\ \A s \in Stores :
               /\ DOMAIN db'[s].recs =
                    DOMAIN db[s].recs
                      \cup {done[j].key : j \in {i \in 1..Len(done) :
                                                   done[i].store = s}}
               /\ \A k \in DOMAIN db[s].recs : db'[s].recs[k] = db[s].recs[k]
          /\ \A j \in 1..Len(done) :
               LET s == done[j].store
                   r == db'[s].recs[done[j].key]
               IN /\ done[j].key \notin DOMAIN db[s].recs
                  /\ \A f \in DOMAIN done[j].input : SameIn(f, r, done[j].input)
                  /\ \A f \in FieldSet(s) \ DOMAIN done[j].input :
                       /\ schema[s][f].default = "static" =>
                            SameIn(f, r, With(EmptyRecord, f, StaticValue))
                       /\ schema[s][f].default = "now" =>
                            SameIn(f, r, With(EmptyRecord, f, Date(done[j].now)))
                       /\ schema[s][f].default = "function" =>
                            SameIn(f, r, With(EmptyRecord, f, FnBase + done[j].now))
                  /\ Len(done[j].log) = Len(done[j].subs)
                  /\ \A n \in 1..Len(done[j].log) :
                       /\ done[j].log[n].cb = done[j].subs[n].cb
                       /\ done[j].log[n].kind = "create"
                       /\ done[j].log[n].store = s
                       /\ DOMAIN done[j].input \subseteq DOMAIN done[j].log[n].rec
                       /\ \A f \in DOMAIN done[j].log[n].rec :
                            SameIn(f, done[j].log[n].rec, r)]_vars

\* a seed of one users record and one posts record without its default-backed
\* fields resolved while c1 was subscribed
C13_Witness ==
  /\ lastTx.kind = "seed"
  /\ lastTx.outcome = "resolved"
  /\ Len(lastTx.done) = 2
  /\ lastTx.done[1].store = "users"
  /\ lastTx.done[2].store = "posts"
  /\ lastTx.done[2].input = EmptyRecord
  /\ lastTx.done[2].subs = <<Handler("c1", 0)>>
  /\ Len(lastTx.done[2].log) = 1
  /\ Cardinality(DOMAIN db["users"].recs) + Cardinality(DOMAIN db["posts"].recs) >= 2

\* C14: when the add of one record of a seed fails with a constraint error
\* (its key is already in the store, or a unique field clashes), seed rejects,
\* its transaction ends without committing, and no store holds any record
\* that this seed call had added: the stores are as they were.
C14_SeedAllOrNothing ==
  [][(lastOp'.via = "seed" /\ lastOp'.err = "ConstraintError") =>
       /\ lastTx'.kind = "seed"
       /\ lastTx'.outcome = "rejected"
       /\ Len(txs') = Len(txs) - 1
       /\ db' = db
       /\ \A x \in lastTx'.written : ~Visible(db', x[1], x[2], x[3])]_vars

\* the second record of a seed failed after the first had been added to
\* another store inside the transaction
C14_Witness ==
  /\ lastOp.via = "seed"
  /\ lastOp.err = "ConstraintError"
  /\ lastTx.kind = "seed"
  /\ lastTx.outcome = "rejected"
  /\ \E x \in lastTx.written : x[1] # lastOp.store

\* what a filter asks of a record: equals, the field holds a value of the
\* same type and the same value; startsWith and endsWith, the field holds a
\* string that begins (ends) with the given one
Satisfies(filter, record) ==
  LET v == record[filter.field]
  IN /\ filter.operator = "equals" =>
          v.type = filter.value.type /\ v.val = filter.value.val
     /\ filter.operator = "startsWith" =>
          /\ v.type = "string"
          /\ \E rest \in {SubSeq(v.val, k, Len(v.val)) : k \in 1..(Len(v.val) + 1)} :
               v.val = filter.value.val \o rest
     /\ filter.operator = "endsWith" =>
          /\ v.type = "string"
          /\ \E front \in {SubSeq(v.val, 1, k) : k \in 0..Len(v.val)} :
               v.val = front \o filter.value.val

\* the records of the store that satisfy every filter, in cursor order
Matching ==
  SelectSeq(records, LAMBDA r :
    \A j \in 1..Len(builder.filters) : Satisfies(builder.filters[j], r))

\* the l elements of seq that follow its first o elements (fewer at the end)
Page(seq, o, l) ==
  SubSeq(seq, o + 1, IF o + l < Len(seq) THEN o + l ELSE Len(seq))

\* rows holds every element of seq once and nothing else
IsPermutation(rows, seq) ==
  /\ Len(rows) = Len(seq)
  /\ \A i \in 1..Len(seq) : \E j \in 1..Len(rows) : rows[j] = seq[i]
  /\ \A i, j \in 1..Len(rows) : i # j => rows[i] # rows[j]

\* rows is in the order of builder.sortField and builder.sortOrder
IsOrdered(rows) ==
  \A i, j \in 1..Len(rows) :
    i < j =>
      IF builder.sortOrder = "asc"
        THEN ~LessThan(rows[j][builder.sortField], rows[i][builder.sortField])
        ELSE ~LessThan(rows[i][builder.sortField], rows[j][builder.sortField])

\* C15: run() on a builder with filters only (no orderBy, limit or offset)
\* resolves with exactly the records of the store that satisfy every filter,
\* in cursor order; equals is strict equality, startsWith and endsWith match
\* string field values only.
C15_WhereFilters ==
  (results.done /\ builder.sortField = "undefined"
     /\ ~builder.limitCount.set /\ ~builder.offsetCount.set) =>
    results.rows = Matching

\* two filters on a store of two records: both records end with "b", one of
\* them has age 1, and only that one is returned
C15_Witness ==
  /\ results.done
  /\ builder.sortField = "undefined"
  /\ ~builder.limitCount.set /\ ~builder.offsetCount.set
  /\ builder.filters = <<WhereArgs[3], WhereArgs[4]>>
  /\ Len(records) = 2
  /\ records[1].age = Num(2)
  /\ records[2].age = Num(1)
  /\ results.rows = <<records[2]>>

\* C16: run() on a builder with orderBy(field, dir) and neither limit nor
\* offset resolves with all matching records, each once, ordered by field:
\* non-decreasing for asc, non-increasing for desc.
C16_OrderBy ==
  (results.done /\ builder.sortField # "undefined"
     /\ ~builder.limitCount.set /\ ~builder.offsetCount.set) =>
    /\ IsPermutation(results.rows, Matching)
    /\ IsOrdered(results.rows)

\* orderBy(name, desc) on a store whose cursor yields "ab" before "b"
\* returned "b" first
C16_Witness ==
  /\ results.done
  /\ builder.sortField = "name"
  /\ builder.sortOrder = "desc"
  /\ ~builder.limitCount.set /\ ~builder.offsetCount.set
  /\ Len(records) = 2
  /\ records[1].name = Str(<<1, 2>>)
  /\ records[2].name = Str(<<2>>)
  /\ results.rows = <<records[2], records[1]>>

\* C17: run() on a builder with orderBy(field, asc), offset(o) and limit(l)
\* resolves with the page of the sorted result: as many records as the list
\* of all matching records sorted by field has after its first o, up to l,
\* carrying the values of field found there, each a matching record, none
\* twice.
C17_PageOfSorted ==
  (results.done /\ builder.sortField # "undefined" /\ builder.sortOrder = "asc"
     /\ builder.limitCount.set /\ builder.offsetCount.set) =>
    LET page == Page(sort(builder, <<>>, Matching), builder.offsetCount.count,
                     builder.limitCount.count)
    IN /\ Len(results.rows) = Len(page)
       /\ \A i \in 1..Len(page) :
            /\ results.rows[i][builder.sortField] = page[i][builder.sortField]
            /\ \E j \in 1..Len(Matching) : Matching[j] = results.rows[i]
       /\ \A i, j \in 1..Len(results.rows) :
            i # j => results.rows[i] # results.rows[j]

\* C18: run() on a builder with offset(o) and limit(l), 0 included, skips the
\* first o matching records in cursor order, takes the next l of them (fewer
\* if the store ends) and resolves with those, sorted when orderBy was called.
C18_OffsetLimit ==
  (results.done /\ builder.limitCount.set /\ builder.offsetCount.set) =>
    LET page == Page(Matching, builder.offsetCount.count,
                     builder.limitCount.count)
    IN /\ Len(results.rows) <= builder.limitCount.count
       /\ results.rows = IF builder.sortField = "undefined" THEN page
                         ELSE sort(builder, <<>>, page)

\* C19: under auto versioning, init on a database that exists (the schema,
\* and so its fingerprint, is the one of every init) leaves the version of
\* the database as it was: repeated init never raises it.
C19_AutoKeepsVersion ==
  [][(lastV'.call = "init" /\ orm'.versioning = Auto /\ idb.version >= 1) =>
       idb'.version = idb.version]_vars

\* a second init under auto versioning resolved on the database that the
\* first had created: the database is still at version 1
C19_Witness ==
  /\ lastV.call = "init"
  /\ lastV.outcome = "resolved"
  /\ orm.versioning = Auto
  /\ orm.schemaLength = 7
  /\ Cardinality(connections) = 2
  /\ idb.version = 1
  /\ idb.stores = applySchema(NoDatabase.stores)

\* C20: migrate(version) on an engine with auto versioning is rejected and
\* changes nothing: the database (version and stores), the open connections,
\* the instance (its connection and currentVersion) and the calls of the
\* migrations hook are as before.
C20_MigrateUnderAuto ==
  [][(lastV'.call = "migrate" /\ orm.versioning = Auto) =>
       /\ lastV'.outcome = "rejected"
       /\ idb' = idb
       /\ connections' = connections
       /\ orm' = orm
       /\ hookCalls' = hookCalls]_vars

\* migrate(1) was rejected on an engine that init had opened under auto
\* versioning with a migrations hook
C20_Witness ==
  /\ lastV.call = "migrate"
  /\ lastV.outcome = "rejected"
  /\ orm.versioning = Auto
  /\ orm.migrations
  /\ orm.state = "open"
  /\ idb.version = 1

\* C21: after init completed successfully, every store the schema declares
\* exists in the database, with keyPath its declared primary-key field and
\* autoIncrement set exactly when that field's default is autoincrement.
C21_StoresAfterInit ==
  (lastV.call = "init" /\ lastV.outcome = "resolved") =>
    \A s \in Stores :
      /\ s \in DOMAIN idb.stores
      /\ idb.stores[s].keyPath = primaryKeyField(s)
      /\ idb.stores[s].autoIncrement
           = (schema[s][primaryKeyField(s)].default = "autoincrement")

\* C22: every call of create, update, delete, seed and transaction ends
\* resolved or rejected, also when a subscriber throws while it is notified:
\* no call reaches the end of its last handler with its promise unsettled. (A
\* call that does is summarised with the outcome "hung": its transaction is
\* finished, so the host calls no further handler that could settle it.)
C22_EveryCallSettles == lastOp.outcome # "hung" /\ lastTx.outcome # "hung"

\* the keys of the records that hold every field of where with its value
WhereMatches(recs, where) ==
  {k \in DOMAIN recs :
     \A f \in DOMAIN where : f \in DOMAIN recs[k] /\ recs[k][f] = where[f]}

\* rec under key would share the value of a unique field with another record
UniqueClash(s, recs, key, rec) ==
  \E k \in DOMAIN recs \ {key} : \E f \in DeclaredUnique(s) :
    f \in DOMAIN rec /\ f \in DOMAIN recs[k] /\ recs[k][f] = rec[f]

\* C23: upsert({where, create, update}) persists the create record when no
\* record matches where; otherwise it applies update to the matching record
\* and returns it with its original primary key; it is rejected when the
\* result would violate a unique constraint.
C23_Upsert ==
  lastOp.op = "upsert" =>
    LET s == lastOp.store
        a == lastOp.input
        pk == primaryKeyField(s)
        found == WhereMatches(lastOp.before, a.where)
    IN IF found = {}
         THEN IF a.create[pk] \in DOMAIN lastOp.before
                   \/ UniqueClash(s, lastOp.before, a.create[pk], a.create)
                THEN lastOp.outcome = "rejected"
                ELSE /\ lastOp.outcome = "resolved"
                     /\ findById(db, s, a.create[pk]) = a.create
         ELSE \E k \in found :
                IF UniqueClash(s, lastOp.before, k,
                               Merge(lastOp.before[k], a.update))
                  THEN lastOp.outcome = "rejected"
                  ELSE /\ lastOp.outcome = "resolved"
                       /\ lastOp.result = Merge(lastOp.before[k], a.update)
                       /\ lastOp.result[pk] = k
                       /\ findById(db, s, k) = lastOp.result

C25_HookOnEveryUpgrade ==
  [][(idb'.version > idb.version /\ orm'.migrations) =>
       /\ hookCalls' = Append(hookCalls,
                              [old |-> idb.version, new |-> idb'.version])
       /\ Stores \subseteq DOMAIN idb'.stores]_vars

\* C26: after a successful init or migrate, every store of the schema that
\* the database holds has a unique index on each field the schema marks
\* unique, also when the store existed before.
C26_UniqueIndexes ==
  (lastV.call \in {"init", "migrate"} /\ lastV.outcome = "resolved") =>
    \A s \in Stores \cap DOMAIN idb.stores :
      DeclaredUnique(s) \subseteq idb.stores[s].indexes

\* C27: the engine has at most one open connection: when init or migrate
\* replaces the connection the instance holds by a newly opened one, the
\* connection it held is closed.
C27_OneConnection ==
  [][(lastV'.call = "migrate" /\ orm.db \in connections /\ orm'.db # orm.db)
       => orm.db \notin connections']_vars

\* C28: when the host reports an error for an open made during init (the
\* first open, or the versioned open that follows it), init rejects with
\* that error: it does not stay pending and does not resolve.
C28_InitRejectsOnHostError ==
  (lastV.call = "init" /\ lastV.err = HostError) =>
    lastV.outcome = "rejected"

\* the fields of the declared store that are marked primaryKey
PrimaryKeys(fields) == {f \in DOMAIN fields : fields[f].primaryKey}

\* C29: creating a store in an upgrade fails with an error, and the store is
\* not created, unless exactly one field of its schema has primaryKey = true:
\* no primary key and two or more primary keys are both rejected.
C29_ExactlyOnePrimaryKey ==
  created.done =>
    IF Cardinality(PrimaryKeys(declared)) = 1
      THEN created.exists /\ created.err = "none"
      ELSE ~created.exists /\ created.err # "none"

\* the transaction of an update that has read its record and not yet written
\* it back
BetweenReadAndWrite(i) ==
  /\ txs[i].kind = "model"
  /\ txs[i].started
  /\ txs[i].q # <<>>
  /\ Head(txs[i].q).op = "update"
  /\ Head(txs[i].q).rk = "put"

C31_EventsOnlyForVisibleWrites ==
  (/\ lastOp.via = "trx"
   /\ lastOp.op \in {"create", "update"}
   /\ lastOp.outcome = "resolved"
   /\ lastTx.kind = "transaction") =>
    \A j \in 1..Len(lastOp.log) :
      LET rec == lastOp.log[j].rec
      IN Visible(db, lastOp.store, rec[primaryKeyField(lastOp.store)], rec)

\* C32: delete(id) for an id under which the store holds no record resolves,
\* leaves every store as it was, and every delete subscriber is invoked once
\* with the store and that id.
C32_DeleteMissing ==
  [][(lastOp'.op = "delete" /\ lastOp'.via = "model"
        /\ lastOp'.id \notin DOMAIN lastOp'.before) =>
       LET o == lastOp'
       IN /\ o.outcome = "resolved"
          /\ db' = db
          /\ Len(o.log) = Len(o.subs)
          /\ \A j \in 1..Len(o.log) :
               /\ o.log[j].cb = o.subs[j].cb
               /\ o.log[j].kind = "delete"
               /\ o.log[j].store = o.store
               /\ o.log[j].rec = o.id]_vars

\* C33: a step of init or migrate that raises the version of the database
\* keeps every store the database held, declared in the schema or not, with
\* its key path, its key generator flag, its indexes and its records.
C33_UpgradeKeepsStores ==
  [][idb'.version > idb.version =>
       /\ \A s \in DOMAIN idb.stores :
            /\ s \in DOMAIN idb'.stores
            /\ idb'.stores[s] = idb.stores[s]
       /\ db' = db]_vars

\* migrate(2) has upgraded a database of version 1 that held a users store
\* without an index, a store outside the schema and a record: the posts
\* store was added and the rest is as it was
C33_Witness ==
  /\ lastV = [call |-> "migrate", outcome |-> "resolved", err |-> "none"]
  /\ hookCalls = <<[old |-> 1, new |-> 2]>>
  /\ idb.version = 2
  /\ DOMAIN idb.stores = {"users", "posts", "legacy"}
  /\ idb.stores["users"].indexes = {}
  /\ idb.stores["legacy"] = LegacyLayout
  /\ 1 \in DOMAIN db["users"].recs

\* C34: over init and migrate calls the version of the database never
\* decreases; migrate(v) with v below the current version fails and leaves
\* the version as it was; and when init or migrate has resolved, the
\* engine's currentVersion is the version of its connection, the one meta()
\* reports.
C34_Versions ==
  [][/\ idb'.version >= idb.version
     /\ \A v \in 0..MaxVersion : \A fail \in BOOLEAN :
          (Migrate(v, fail) /\ v < idb.version) =>
            /\ lastV'.outcome = "rejected"
            /\ idb'.version = idb.version
     /\ (lastV'.call \in {"init", "migrate"} /\ lastV'.outcome = "resolved") =>
          orm'.currentVersion = meta(idb').version]_vars

====
